---------------------------- MODULE Spec2Model ----------------------------
(***************************************************************************)
(* A model of the `vise` metrics library: the append-only Family storage,  *)
(* the Registry with eager and lazy registration, the streaming translator *)
(* from the OpenMetrics text format to the Prometheus dialects, the metric *)
(* wrappers, and the pull server and push loop of `vise-exporter`.         *)
(* Text is modelled as sequences of one-character strings.                 *)
(***************************************************************************)
EXTENDS Integers, Sequences, FiniteSets, TLC

(***************************************************************************)
(* Text helpers: the string operations of the Rust standard library that   *)
(* the translator relies on.                                               *)
(***************************************************************************)

\* char::is_ascii_whitespace: space, tab, line feed, form feed, carriage return.
IsAsciiWhitespace(ch) == ch \in {" ", "\t", "\n", "\f", "\r"}

\* The least index of a set of indices, or 0 for none (str::find -> None).
FirstIndex(I) == IF I = {} THEN 0 ELSE CHOOSE i \in I : \A j \in I : i <= j

\* str::find of a newline, of an ASCII whitespace, and of `{` or an ASCII whitespace.
FindNewline(s) == FirstIndex({i \in 1..Len(s) : s[i] = "\n"})

FindWhitespace(s) == FirstIndex({i \in 1..Len(s) : IsAsciiWhitespace(s[i])})

\* A search that takes the whole line for the name when nothing ends it.
FindNameEnd_OrEndOfLine(s) ==
    LET pos == FirstIndex({i \in 1..Len(s) : s[i] = "{" \/ IsAsciiWhitespace(s[i])})
    IN  IF pos = 0 THEN Len(s) + 1 ELSE pos

FindNameEnd(s) == FirstIndex({i \in 1..Len(s) : s[i] = "{" \/ IsAsciiWhitespace(s[i])})

StartsWith(s, p) == Len(s) >= Len(p) /\ SubSeq(s, 1, Len(p)) = p

EndsWith(s, p) == Len(s) >= Len(p) /\ SubSeq(s, Len(s) - Len(p) + 1, Len(s)) = p

\* str::strip_prefix / str::strip_suffix, used only where the affix is present.
StripPrefix(s, p) == SubSeq(s, Len(p) + 1, Len(s))

StripSuffix(s, p) == SubSeq(s, 1, Len(s) - Len(p))

\* str::trim restricted to the ASCII whitespace characters.
Trim(s) ==
    LET I == {i \in 1..Len(s) : ~IsAsciiWhitespace(s[i])}
    IN  IF I = {} THEN <<>>
        ELSE SubSeq(s, CHOOSE i \in I : \A j \in I : i <= j,
                       CHOOSE i \in I : \A j \in I : i >= j)

\* str::lines: the text is cut after every "\n"; the "\n" is removed from each
\* piece together with a "\r" right before it.  A final piece without "\n" is a
\* line as it stands; the empty text has no lines.
RECURSIVE Lines(_)
Lines(s) ==
    IF s = <<>> THEN <<>>
    ELSE LET i == FindNewline(s)
         IN  IF i = 0 THEN <<s>>
             ELSE LET body == SubSeq(s, 1, i - 1)
                      line == IF EndsWith(body, <<"\r">>)
                              THEN StripSuffix(body, <<"\r">>) ELSE body
                  IN  <<line>> \o Lines(SubSeq(s, i + 1, Len(s)))

\* Concatenation of a sequence of texts.
RECURSIVE Concat(_)
Concat(ss) == IF ss = <<>> THEN <<>> ELSE Head(ss) \o Concat(Tail(ss))

(***************************************************************************)
(* Literals of the text formats.                                           *)
(***************************************************************************)
TypePrefix == <<"#", " ", "T", "Y", "P", "E", " ">>
HelpPrefix == <<"#", " ", "H", "E", "L", "P", " ">>
UnitPrefix == <<"#", " ", "U", "N", "I", "T", " ">>
EofLine == <<"#", " ", "E", "O", "F">>
TotalSuffix == <<"_", "t", "o", "t", "a", "l">>
InfoSuffix == <<"_", "i", "n", "f", "o">>
CounterWord == <<"c", "o", "u", "n", "t", "e", "r">>
GaugeWord == <<"g", "a", "u", "g", "e">>
HistogramWord == <<"h", "i", "s", "t", "o", "g", "r", "a", "m">>
InfoWord == <<"i", "n", "f", "o">>
BytesWord == <<"b", "y", "t", "e", "s">>
NL == <<"\n">>


(***************************************************************************)
(* format.rs: MetricTypeDefinition and PrometheusWrapper.                  *)
(***************************************************************************)
NoDefinition == [name |-> <<>>, ty |-> "None"]

\* MetricTypeDefinition::parse: Err (ok = FALSE) unless the trimmed text holds an
\* ASCII whitespace character; the name is what precedes the first one.
MetricTypeDefinition_parse(line) ==
    LET trimmed == Trim(line)
        pos == FindWhitespace(trimmed)
        name == SubSeq(trimmed, 1, pos - 1)
        ty == SubSeq(trimmed, pos + 1, Len(trimmed))
    IN  IF pos = 0 THEN [ok |-> FALSE, def |-> NoDefinition]
        ELSE [ok |-> TRUE,
              def |-> [name |-> name,
                       ty |-> CASE ty = CounterWord -> "Counter"
                                [] ty = GaugeWord -> "Gauge"
                                [] ty = HistogramWord -> "Histogram"
                                [] ty = InfoWord -> "Info"
                                [] OTHER -> "Unknown"]]

\* PrometheusWrapper::new
PrometheusWrapper_new ==
    [writer |-> <<>>,
     remove_eof_terminator |-> FALSE,
     translate_info_metrics_type |-> FALSE,
     last_metric_definition |-> NoDefinition,
     last_line |-> <<>>,
     err |-> FALSE]

remove_eof_terminator(w) == [w EXCEPT !.remove_eof_terminator = TRUE]

translate_info_metrics_type(w) == [w EXCEPT !.translate_info_metrics_type = TRUE]

\* A translator that forgets the counters: only `_info` is stripped.
SuffixOfType_InfoOnly(ty) == IF ty = "Info" THEN InfoSuffix ELSE <<>>

\* The suffix that handle_line strips from a value line after a TYPE of kind ty
\* (<<>>: the kind is left alone).
SuffixOfType(ty) ==
    CASE ty = "Counter" -> TotalSuffix
      [] ty = "Info" -> InfoSuffix
      [] OTHER -> <<>>

\* handle_line, the branch of a "# TYPE " line: the rewritten line, or <<>> for none.
TransformTypeLine(w, def) ==
    IF w.translate_info_metrics_type /\ def.ty = "Info"
    THEN TypePrefix \o def.name \o <<" ">> \o GaugeWord
    ELSE <<>>

\* A translator that strips the suffix whatever name the TYPE line declared.
TransformValueLine_AnyName(w, name, rest) ==
    LET def == w.last_metric_definition
        suffix == SuffixOfType(def.ty)
    IN  IF def.ty # "None" /\ suffix # <<>> /\ EndsWith(name, suffix)
        THEN StripSuffix(name, suffix) \o rest
        ELSE <<>>

\* handle_line, the branch of a value line: the rewritten line, or <<>> for none.
TransformValueLine(w, name, rest) ==
    LET def == w.last_metric_definition
        suffix == SuffixOfType(def.ty)
    IN  IF def.ty # "None" /\ suffix # <<>> /\ EndsWith(name, suffix)
           /\ StripSuffix(name, suffix) = def.name
        THEN def.name \o rest
        ELSE <<>>

\* Whether handle_line drops the line without writing it.
SkipsLine(w, line) == line = EofLine /\ w.remove_eof_terminator

\* PrometheusWrapper::handle_line: takes last_line, and writes it (translated)
\* followed by a newline, or fails.
handle_line(w) ==
    LET line == w.last_line
        taken == [w EXCEPT !.last_line = <<>>]
        emit(v, text) == [v EXCEPT !.writer = @ \o text \o NL]
    IN  IF SkipsLine(w, line) THEN taken
        ELSE IF StartsWith(line, TypePrefix)
        THEN LET parsed == MetricTypeDefinition_parse(StripPrefix(line, TypePrefix))
                 tr == TransformTypeLine(taken, parsed.def)
             IN  IF ~parsed.ok THEN [taken EXCEPT !.err = TRUE]
                 ELSE emit([taken EXCEPT !.last_metric_definition = parsed.def],
                           IF tr # <<>> THEN tr ELSE line)
        ELSE IF ~StartsWith(line, <<"#">>)
        THEN LET name_end_pos == FindNameEnd(line)
                 name == SubSeq(line, 1, name_end_pos - 1)
                 rest == SubSeq(line, name_end_pos, Len(line))
                 tr == TransformValueLine(taken, name, rest)
             IN  IF name_end_pos = 0 THEN [taken EXCEPT !.err = TRUE]
                 ELSE emit(taken, IF tr # <<>> THEN tr ELSE line)
        ELSE emit(taken, line)

\* A flush that forgets the buffered line.
flush_DroppingLastLine(w) == w

\* PrometheusWrapper::flush
flush(w) == IF w.last_line = <<>> THEN w ELSE handle_line(w)

\* A write_str that takes the last line of a chunk for unfinished even when the
\* chunk ends with a newline.
LineIsComplete_IgnoringNewline(i, n, s) == i + 1 <= n

\* Whether write_str handles the line it has just buffered: every line of the
\* chunk but the last, and the last one too when the chunk ends with a newline.
LineIsComplete(i, n, s) == i + 1 <= n \/ EndsWith(s, NL)

\* write_str's loop from the i-th line on; it stops at the first error.
RECURSIVE WriteLines(_, _, _, _)
WriteLines(w, lines, i, s) ==
    IF i > Len(lines) THEN w
    ELSE LET pushed == [w EXCEPT !.last_line = @ \o lines[i]]
             handled == IF LineIsComplete(i, Len(lines), s)
                        THEN handle_line(pushed) ELSE pushed
         IN  IF handled.err THEN handled
             ELSE WriteLines(handled, lines, i + 1, s)

\* <PrometheusWrapper as fmt::Write>::write_str
write_str(w, s) == WriteLines(w, Lines(s), 1, s)


(***************************************************************************)
(* registry.rs, Registry::encode: the wrapper set up for a format.         *)
(***************************************************************************)
PrometheusFormats == {"Prometheus", "OpenMetricsForPrometheus"}

Formats == PrometheusFormats \cup {"OpenMetrics"}

\* An encode that sets up the plain wrapper for both formats.
WrapperFor_Plain(fmt) == PrometheusWrapper_new

\* An encode that has the info kind rewritten in both formats.
WrapperFor_TranslatingInfo(fmt) ==
    IF fmt = "Prometheus"
    THEN translate_info_metrics_type(remove_eof_terminator(PrometheusWrapper_new))
    ELSE translate_info_metrics_type(PrometheusWrapper_new)

\* Registry::encode, the wrapper it writes through: only Format::Prometheus has
\* the terminator removed and the info kind rewritten.
WrapperFor(fmt) ==
    IF fmt = "Prometheus"
    THEN translate_info_metrics_type(remove_eof_terminator(PrometheusWrapper_new))
    ELSE PrometheusWrapper_new

(***************************************************************************)
(* The translator fed with a text stream in chunks.                        *)
(***************************************************************************)
VARIABLES
    format,     \* the Format the wrapper was set up for
    input,      \* the whole text the upstream encoder produces
    rest,       \* the part of input not yet passed to write_str
    wrapper,    \* the PrometheusWrapper
    wstate,     \* "writing", "flushed" (flush returned Ok) or "failed" (an Err was returned)
    cuts        \* history: the kinds of chunk boundaries the run has had so far

fvars == <<format, input, rest, wrapper, wstate, cuts>>

\* Lines of the canonical format, with one-letter metric names.
LineTypeCounter == TypePrefix \o <<"a", " ">> \o CounterWord
LineTypeInfo == TypePrefix \o <<"a", " ">> \o InfoWord
LineTypeGauge == TypePrefix \o <<"b", " ">> \o GaugeWord
LineHelp == HelpPrefix \o <<"a", " ", "h", ".">>
LineTotal == <<"a">> \o TotalSuffix \o <<" ", "3">>
LineTotalLabels == <<"a">> \o TotalSuffix \o <<"{", "x", "=", "\"", "\r", "\"", "}", " ", "5">>
LineInfo == <<"a">> \o InfoSuffix \o <<"{", "v", "}", " ", "1">>
LineOtherTotal == <<"b">> \o TotalSuffix \o <<" ", "1">>
LineNoValue == <<"a">>

LinePool ==
    {LineTypeCounter, LineTypeInfo, LineTypeGauge, LineHelp, LineTotal,
     LineTotalLabels, LineInfo, LineOtherTotal, LineNoValue, EofLine}

\* The most lines a stream holds.
MaxLines == 2

\* The most characters one write_str call passes.
MaxChunk == 8

RECURSIVE SeqsUpTo(_, _)
SeqsUpTo(S, n) ==
    IF n = 0 THEN {<<>>}
    ELSE LET shorter == SeqsUpTo(S, n - 1)
         IN  shorter \cup {Append(q, x) : q \in {r \in shorter : Len(r) = n - 1}, x \in S}

\* The text of a sequence of lines; the last line is newline-terminated or not.
TextOf(lines, terminated) ==
    IF lines = <<>> THEN <<>>
    ELSE Concat([i \in 1..Len(lines) |->
                    IF i < Len(lines) \/ terminated THEN lines[i] \o NL ELSE lines[i]])

Streams == {TextOf(ls, t) : ls \in SeqsUpTo(LinePool, MaxLines), t \in BOOLEAN}

FormatInit ==
    /\ format \in PrometheusFormats
    /\ input \in Streams
    /\ rest = input
    /\ wrapper = WrapperFor(format)
    /\ wstate = "writing"
    /\ cuts = {}

\* The kinds of boundary a chunk makes: it ends inside a line, or it is a lone newline.
CutKinds(chunk, after) ==
    (IF ~EndsWith(chunk, NL) /\ after # <<>> /\ Head(after) # "\n" THEN {"mid_line"} ELSE {})
    \cup (IF chunk = NL THEN {"newline_only"} ELSE {})

ChunkSizes == 1..(IF Len(rest) < MaxChunk THEN Len(rest) ELSE MaxChunk)

\* One write_str call of the upstream encoder with the next k characters.
WriteStr(k) ==
    /\ wstate = "writing"
    /\ k \in ChunkSizes
    /\ wrapper' = write_str(wrapper, SubSeq(rest, 1, k))
    /\ rest' = SubSeq(rest, k + 1, Len(rest))
    /\ wstate' = IF wrapper'.err THEN "failed" ELSE "writing"
    /\ cuts' = cuts \cup CutKinds(SubSeq(rest, 1, k), rest')
    /\ UNCHANGED <<format, input>>

\* The upstream encoder is done: Registry::encode calls flush.
Flush ==
    /\ wstate = "writing"
    /\ rest = <<>>
    /\ wrapper' = flush(wrapper)
    /\ wstate' = IF wrapper'.err THEN "failed" ELSE "flushed"
    /\ UNCHANGED <<format, input, rest, cuts>>

\* The whole stream written in a single write_str call, then flushed.
OneShot(fmt, text) ==
    LET written == write_str(WrapperFor(fmt), text)
    IN  IF written.err THEN written ELSE flush(written)


\* C6: however the stream is cut into write_str chunks, once the run has ended
\* (flush returned, or an error was returned) the text written and the outcome
\* are those of writing the whole stream in a single chunk and flushing.
C6_ChunkingIsTransparent ==
    wstate \in {"flushed", "failed"} =>
        LET ref == OneShot(format, input)
        IN  /\ wrapper.writer = ref.writer
            /\ wrapper.err = ref.err

\* A translated two-line stream that was cut inside a line and by a lone newline.
C6_Witness ==
    /\ wstate = "flushed"
    /\ cuts = {"mid_line", "newline_only"}
    /\ Len(Lines(input)) = 2
    /\ wrapper.writer # input


\* The lines of the input, and whether the translator is to drop the i-th one.
InLines == Lines(input)

Dropped(i) == format = "Prometheus" /\ InLines[i] = EofLine

\* Where the i-th input line lands in the output when no line is lost or doubled.
OutIndex(i) == i - Cardinality({j \in 1..(i - 1) : Dropped(j)})

\* C7: when flush returns Ok, it has written nothing if no partial line was
\* buffered, and otherwise it has written the buffered line once (or dropped it,
\* if it is a `# EOF` the format drops); the output then holds one line per input
\* line that is not a dropped `# EOF`, and is the output for the same lines all
\* newline-terminated.
C7_FlushWritesLastLineOnce ==
    [][(wstate = "writing" /\ wstate' = "flushed") =>
        LET before == Lines(wrapper.writer)
            after == Lines(wrapper'.writer)
            partial == wrapper.last_line
            dropsIt == format = "Prometheus" /\ partial = EofLine
        IN  /\ partial = <<>> => wrapper'.writer = wrapper.writer
            /\ partial # <<>> => Len(after) = Len(before) + (IF dropsIt THEN 0 ELSE 1)
            /\ Len(after) = Cardinality({i \in 1..Len(InLines) : ~Dropped(i)})
            /\ wrapper'.writer = OneShot(format, TextOf(InLines, TRUE)).writer
      ]_fvars

\* A flushed run whose last line came without a newline and was written by flush.
C7_Witness ==
    /\ wstate = "flushed"
    /\ input # <<>> /\ ~EndsWith(input, NL)
    /\ Len(InLines) = 2
    /\ Len(Lines(wrapper.writer)) = 2
    /\ EndsWith(wrapper.writer, NL)

\* The most recent TYPE line before the i-th input line (0: none).
LastTypeBefore(i) ==
    LET J == {j \in 1..(i - 1) : StartsWith(InLines[j], TypePrefix)}
    IN  IF J = {} THEN 0 ELSE CHOOSE j \in J : \A k \in J : k <= j

\* The i-th input line is a TYPE line declaring a counter.
DeclaresCounter(i) ==
    /\ StartsWith(InLines[i], TypePrefix)
    /\ EndsWith(InLines[i], <<" ">> \o CounterWord)

\* The name a counter TYPE line declares.
DeclaredName(i) ==
    StripSuffix(StripPrefix(InLines[i], TypePrefix), <<" ">> \o CounterWord)

\* The i-th input line reports N_total (followed by labels or a value), N being
\* the counter declared by the most recent TYPE line.
ReportsDeclaredTotal(i) ==
    LET j == LastTypeBefore(i)
        head == DeclaredName(j) \o TotalSuffix
        line == InLines[i]
    IN  /\ j # 0 /\ DeclaresCounter(j)
        /\ StartsWith(line, head) /\ Len(line) > Len(head)
        /\ (line[Len(head) + 1] = "{" \/ IsAsciiWhitespace(line[Len(head) + 1]))

\* C8: in both Prometheus-compatible formats, once the stream is translated, a
\* value line N_total of the counter N declared by the most recent TYPE line
\* appears as N followed by the unchanged rest of the line, and a counter's TYPE
\* line appears unchanged.
C8_CounterTotalStripped ==
    wstate = "flushed" =>
        LET out == Lines(wrapper.writer)
        IN  \A i \in 1..Len(InLines) :
                /\ ReportsDeclaredTotal(i) =>
                    LET name == DeclaredName(LastTypeBefore(i))
                    IN  /\ OutIndex(i) \in 1..Len(out)
                        /\ out[OutIndex(i)] =
                             name \o StripPrefix(InLines[i], name \o TotalSuffix)
                /\ DeclaresCounter(i) =>
                    /\ OutIndex(i) \in 1..Len(out)
                    /\ out[OutIndex(i)] = InLines[i]

\* A counter declared and reported: `# TYPE a counter`, `a_total 3` came out as
\* `# TYPE a counter`, `a 3`.
C8_Witness ==
    /\ wstate = "flushed"
    /\ InLines = <<LineTypeCounter, LineTotal>>
    /\ Lines(wrapper.writer) = <<LineTypeCounter, <<"a", " ", "3">>>>


\* A line that is not a comment and holds neither `{` nor an ASCII whitespace.
Malformed(line) ==
    /\ ~StartsWith(line, <<"#">>)
    /\ \A i \in 1..Len(line) : line[i] # "{" /\ ~IsAsciiWhitespace(line[i])

\* The index of the first such line of the input, or 0.
FirstMalformed == FirstIndex({i \in 1..Len(InLines) : Malformed(InLines[i])})

\* C20: in both Prometheus-compatible formats a line that is not a comment
\* and holds neither `{` nor ASCII whitespace makes the translator return an
\* error, with which the encode ends: the lines before it are written, the
\* line itself and the lines after it are not, and no stream without such a
\* line fails.
C20_MalformedLineIsAnError ==
    wstate \in {"flushed", "failed"} =>
        /\ (wstate = "failed") = (FirstMalformed # 0)
        /\ OneShot(format, input).err = (FirstMalformed # 0)
        /\ FirstMalformed # 0 =>
              /\ wrapper.err
              /\ Len(Lines(wrapper.writer)) =
                    Cardinality({i \in 1..(FirstMalformed - 1) : ~Dropped(i)})
              /\ wrapper.writer =
                    OneShot(format,
                            TextOf(SubSeq(InLines, 1, FirstMalformed - 1),
                                   TRUE)).writer

\* A stream whose second line is malformed was written in chunks: the first
\* line came out and the encode failed.
C20_Witness ==
    /\ wstate = "failed"
    /\ FirstMalformed = 2
    /\ Len(Lines(wrapper.writer)) = 1
    /\ "mid_line" \in cuts

(***************************************************************************)
(* wrappers.rs: Family over elsa's FrozenMap.  The map is an append-only   *)
(* table of (labels, boxed metric) entries behind a read/write lock; the   *)
(* lock is taken inside `get`, `insert_with` and `keys_cloned` only, so    *)
(* each of those calls is one step.  A metric is named by the number of    *)
(* the build that made it.                                                 *)
(***************************************************************************)
VARIABLES
    fentries,      \* FamilyInner.map: sequence of [key, metric]
    built,         \* how many metrics M::build has made
    heap,          \* the boxed metrics that are allocated
    tpc,           \* per thread: "idle", or "insert" between get and insert_with
    targ,          \* per thread: the labels of the get_or_create in progress
    held,          \* per thread: the references [key, metric] it still borrows
    obs,           \* what the last finished call returned
    materialized,  \* history: per labels, the metric get_or_create first returned (0: none)
    raced,         \* history: labels for which an insert_with found them already present
    heldDuring     \* history: an insert_with added an entry while a reference was held

famvars ==
    <<fentries, built, heap, tpc, targ, held, obs, materialized, raced, heldDuring>>

Threads == {"t1", "t2"}

\* The number of distinct label combinations the threads use.
NumLabels == 2

Labels == 1..NumLabels

\* FrozenMap::get: the metric stored for the key, or 0 for None.
MapGet(entries, key) ==
    LET I == {i \in 1..Len(entries) : entries[i].key = key}
    IN  IF I = {} THEN 0 ELSE entries[FirstIndex(I)].metric

\* FrozenMap::keys_cloned
KeysCloned(entries) == [i \in 1..Len(entries) |-> entries[i].key]

\* An insert_with that overwrites what is stored for the key, as HashMap::insert does.
MapInsertWith_Replacing(entries, key, fresh) ==
    [entries |-> IF MapGet(entries, key) = 0
                 THEN Append(entries, [key |-> key, metric |-> fresh])
                 ELSE [i \in 1..Len(entries) |->
                          IF entries[i].key = key
                          THEN [key |-> key, metric |-> fresh] ELSE entries[i]],
     metric |-> fresh,
     dropped |-> IF MapGet(entries, key) = 0 THEN {} ELSE {MapGet(entries, key)},
     builds |-> 1]

\* An insert_with that adds its entry without looking for the key.
MapInsertWith_Unchecked(entries, key, fresh) ==
    [entries |-> Append(entries, [key |-> key, metric |-> fresh]),
     metric |-> fresh, dropped |-> {}, builds |-> 1]

\* An insert_with of a map that keeps only the newest entry.
MapInsertWith_Evicting(entries, key, fresh) ==
    IF MapGet(entries, key) # 0
    THEN [entries |-> entries, metric |-> MapGet(entries, key),
          dropped |-> {}, builds |-> 0]
    ELSE [entries |-> <<[key |-> key, metric |-> fresh]>>,
          metric |-> fresh,
          dropped |-> {entries[i].metric : i \in 1..Len(entries)}, builds |-> 1]

\* FrozenMap::insert_with(key, || Box::new(M::build(..))): under the write lock,
\* the stored metric if the key is present, else a newly built one, now stored.
\* `fresh` names the metric the closure would build; builds says whether it ran.
MapInsertWith(entries, key, fresh) ==
    IF MapGet(entries, key) # 0
    THEN [entries |-> entries, metric |-> MapGet(entries, key),
          dropped |-> {}, builds |-> 0]
    ELSE [entries |-> Append(entries, [key |-> key, metric |-> fresh]),
          metric |-> fresh, dropped |-> {}, builds |-> 1]

\* FamilyInner::to_entries: the keys' snapshot, each looked up again.
to_entries(entries) ==
    LET keys == KeysCloned(entries)
    IN  [i \in 1..Len(keys) |-> [key |-> keys[i], metric |-> MapGet(entries, keys[i])]]

\* Family::contains
contains(entries, key) == MapGet(entries, key) # 0

\* A map whose returned references each keep a read guard of the lock alive, as
\* the references of prometheus-client's own Family do.
RefKeepsReadGuard_Standard == TRUE

\* Whether a returned reference keeps a read guard of the map's lock alive:
\* FrozenMap::get drops its guard before it returns the plain reference.
RefKeepsReadGuard == FALSE

\* Whether a read guard is alive, so that the write lock is not granted.
ReadLocked == RefKeepsReadGuard /\ \E t \in Threads : held[t] # {}

FamilyInit ==
    /\ fentries = <<>>
    /\ built = 0
    /\ heap = {}
    /\ tpc = [t \in Threads |-> "idle"]
    /\ targ = [t \in Threads |-> 0]
    /\ held = [t \in Threads |-> {}]
    /\ obs = [op |-> "none", key |-> 0, result |-> 0]
    /\ materialized = [l \in Labels |-> 0]
    /\ raced = {}
    /\ heldDuring = FALSE

\* get_or_create, first half: `self.map.get(labels)`; return the metric if there.
IndexGet(t, l) ==
    /\ tpc[t] = "idle"
    /\ LET found == MapGet(fentries, l)
       IN  IF found # 0
           THEN /\ held' = [held EXCEPT ![t] = @ \cup {[key |-> l, metric |-> found]}]
                /\ obs' = [op |-> "index", key |-> l, result |-> found]
                /\ UNCHANGED <<tpc, targ>>
           ELSE /\ tpc' = [tpc EXCEPT ![t] = "insert"]
                /\ targ' = [targ EXCEPT ![t] = l]
                /\ UNCHANGED <<held, obs>>
    /\ UNCHANGED <<fentries, built, heap, materialized, raced, heldDuring>>

\* get_or_create, second half: `self.map.insert_with(labels.clone(), ..)`.  The
\* write lock is granted only while no read guard is alive.
IndexInsertWith(t) ==
    /\ tpc[t] = "insert"
    /\ ~ReadLocked
    /\ LET l == targ[t]
           r == MapInsertWith(fentries, l, built + 1)
       IN  /\ fentries' = r.entries
           /\ built' = built + r.builds
           /\ heap' = (heap \cup (IF r.builds = 1 THEN {built + 1} ELSE {})) \ r.dropped
           /\ held' = [held EXCEPT ![t] = @ \cup {[key |-> l, metric |-> r.metric]}]
           /\ obs' = [op |-> "index", key |-> l, result |-> r.metric]
           /\ materialized' = IF materialized[l] = 0
                              THEN [materialized EXCEPT ![l] = r.metric]
                              ELSE materialized
           /\ raced' = IF MapGet(fentries, l) # 0 THEN raced \cup {l} ELSE raced
           /\ heldDuring' = (heldDuring \/ (r.builds = 1 /\ \E u \in Threads : held[u] # {}))
    /\ tpc' = [tpc EXCEPT ![t] = "idle"]
    /\ targ' = [targ EXCEPT ![t] = 0]

\* Family::get: like indexing, but None when the labels are absent.
FamilyGet(t, l) ==
    /\ tpc[t] = "idle"
    /\ LET found == MapGet(fentries, l)
       IN  /\ obs' = [op |-> "get", key |-> l, result |-> found]
           /\ held' = IF found = 0 THEN held
                      ELSE [held EXCEPT ![t] = @ \cup {[key |-> l, metric |-> found]}]
    /\ UNCHANGED <<fentries, built, heap, tpc, targ, materialized, raced, heldDuring>>

\* Family::contains
FamilyContains(t, l) ==
    /\ tpc[t] = "idle"
    /\ obs' = [op |-> "contains", key |-> l, result |-> contains(fentries, l)]
    /\ UNCHANGED <<fentries, built, heap, tpc, targ, held, materialized, raced, heldDuring>>

\* Family::to_entries, and Family's EncodeMetric::encode, which walks the same list.
FamilyToEntries(t, op) ==
    /\ tpc[t] = "idle"
    /\ obs' = [op |-> op, key |-> 0, result |-> to_entries(fentries)]
    /\ UNCHANGED <<fentries, built, heap, tpc, targ, held, materialized, raced, heldDuring>>

\* The thread lets go of a reference it borrowed.
Release(t, r) ==
    /\ r \in held[t]
    /\ held' = [held EXCEPT ![t] = @ \ {r}]
    /\ UNCHANGED <<fentries, built, heap, tpc, targ, obs, materialized, raced, heldDuring>>


\* C1: a label combination that indexing has materialized stays stored with the
\* same metric: a lookup returns the metric first returned, contains() is true,
\* to_entries() lists the combination once with that metric, and every metric a
\* finished index or get returned is the one first returned for its labels.
C1_MaterializedNeverReplaced ==
    /\ \A l \in Labels :
        materialized[l] # 0 =>
            /\ MapGet(fentries, l) = materialized[l]
            /\ contains(fentries, l)
            /\ materialized[l] \in heap
            /\ LET listed == to_entries(fentries)
                   I == {i \in 1..Len(listed) : listed[i].key = l}
               IN  /\ Cardinality(I) = 1
                   /\ \A i \in I : listed[i].metric = materialized[l]
    /\ (obs.op \in {"index", "get"} /\ obs.result # 0) =>
            obs.result = materialized[obs.key]

\* Both label combinations materialized, and then a get, a contains and a
\* to_entries or encode have run (the last one is the observed call).
C1_Witness ==
    /\ \A l \in Labels : materialized[l] # 0
    /\ obs.op = "encode"
    /\ Len(obs.result) = NumLabels

\* C2: equal labels never have two stored entries, two references borrowed for
\* equal labels are the same metric, and after a race for some labels (an
\* insert_with that found them already inserted) they have exactly one entry,
\* which holds the metric handed out first.
C2_RaceKeepsOneInstance ==
    /\ \A l \in Labels :
        LET I == {i \in 1..Len(fentries) : fentries[i].key = l}
        IN  /\ Cardinality(I) <= 1
            /\ l \in raced =>
                /\ Cardinality(I) = 1
                /\ \A i \in I : fentries[i].metric = materialized[l]
    /\ \A t1 \in Threads, t2 \in Threads :
        \A r1 \in held[t1], r2 \in held[t2] :
            r1.key = r2.key => r1.metric = r2.metric

\* Two threads raced for the same labels and both hold the reference they got.
C2_Witness ==
    \E l \in raced :
        \A t \in Threads : \E r \in held[t] : r.key = l

GroupNames == {"App", "Cache", "Store"}

Group(g) ==
    CASE g = "App" ->
            [name |-> "App", module_path |-> "app", line |-> 10,
             metrics |-> <<
                [name |-> <<"c">>, field_name |-> "c", metric_type |-> "Counter",
                 unit |-> <<>>, help |-> <<"h">>],
                [name |-> <<"p">>, field_name |-> "p", metric_type |-> "Info",
                 unit |-> <<>>, help |-> <<"h">>] >>]
      [] g = "Cache" ->
            [name |-> "Cache", module_path |-> "cache", line |-> 20,
             metrics |-> <<
                [name |-> <<"g">>, field_name |-> "g", metric_type |-> "Gauge",
                 unit |-> BytesWord, help |-> <<"h">>] >>]
      [] g = "Store" ->
            [name |-> "Store", module_path |-> "store", line |-> 30,
             metrics |-> <<
                [name |-> <<"x">>, field_name |-> "x", metric_type |-> "Counter",
                 unit |-> <<>>, help |-> <<"h">>],
                [name |-> <<"g", "_">> \o BytesWord, field_name |-> "used",
                 metric_type |-> "Gauge", unit |-> <<>>, help |-> <<"h">>] >>]

\* MetricDescriptor::full_name
full_name(field) ==
    IF field.unit # <<>> THEN field.name \o <<"_">> \o field.unit ELSE field.name

\* FullMetricDescriptor::new(group, field), the field given by its position.
FullMetricDescriptor_new(g, i) == [group |-> g, field |-> i]

\* FullMetricDescriptor::format_for_panic: the definition site that is printed.
format_for_panic(descriptor) ==
    [module_path |-> Group(descriptor.group).module_path,
     group_name |-> Group(descriptor.group).name,
     field_name |-> Group(descriptor.group).metrics[descriptor.field].field_name,
     line |-> Group(descriptor.group).line]

NoPanic == [name |-> <<>>]

\* HashMap::insert on metrics_by_name.
MapInsert(by_name, key, value) ==
    [n \in DOMAIN by_name \cup {key} |-> IF n = key THEN value ELSE by_name[n]]

\* A push loop that inserts every field and never looks at what insert returned.
RECURSIVE PushFields_Unchecked(_, _, _)
PushFields_Unchecked(by_name, g, i) ==
    IF i > Len(Group(g).metrics) THEN [by_name |-> by_name, panic |-> NoPanic]
    ELSE PushFields_Unchecked(
            MapInsert(by_name, full_name(Group(g).metrics[i]), FullMetricDescriptor_new(g, i)),
            g, i + 1)

\* RegisteredDescriptors::push, the loop over the group's fields from the i-th
\* on: each descriptor is inserted under its full name, and the loop panics when
\* the insert returns a previous descriptor.
RECURSIVE PushFields(_, _, _)
PushFields(by_name, g, i) ==
    IF i > Len(Group(g).metrics) THEN [by_name |-> by_name, panic |-> NoPanic]
    ELSE LET field == Group(g).metrics[i]
             descriptor == FullMetricDescriptor_new(g, i)
             metric_name == full_name(field)
             inserted == MapInsert(by_name, metric_name, descriptor)
         IN  IF metric_name \in DOMAIN by_name
             THEN [by_name |-> inserted,
                   panic |-> [name |-> metric_name,
                              descriptor |-> format_for_panic(descriptor),
                              prev_descriptor |-> format_for_panic(by_name[metric_name])]]
             ELSE PushFields(inserted, g, i + 1)

\* A push that lists the group and leaves the index of names alone.
push_Unindexed(descriptors, g) ==
    [descriptors |-> [descriptors EXCEPT !.groups = Append(@, g)],
     panic |-> NoPanic]

\* RegisteredDescriptors::push: the group is listed once all its fields are in.
push(descriptors, g) ==
    LET r == PushFields(descriptors.metrics_by_name, g, 1)
    IN  [descriptors |->
            [groups |-> IF r.panic = NoPanic THEN Append(descriptors.groups, g)
                        ELSE descriptors.groups,
             metrics_by_name |-> r.by_name],
         panic |-> r.panic]

\* Registry::empty
Registry_empty ==
    [descriptors |-> [groups |-> <<>>, metrics_by_name |-> <<>>],
     inner |-> [metrics |-> <<>>, collectors |-> <<>>],
     is_lazy |-> FALSE]

\* <Registry as MetricsVisitor>::visit_metric for every field of the group
\* (Metrics::visit_metrics): each metric is registered in the inner registry
\* under its name, help and unit.
visit_metrics(r, g) ==
    [r EXCEPT !.inner.metrics =
        @ \o [i \in 1..Len(Group(g).metrics) |-> FullMetricDescriptor_new(g, i)]]

\* RegistryInner::register_collector
inner_register_collector(r, kind, g) ==
    [r EXCEPT !.inner.collectors = Append(@, [kind |-> kind, group |-> g])]

\* Registry::register_metrics.  The result tells as well whether the call
\* dereferenced the group's Lazy, which initializes it.
register_metrics(r, g) ==
    LET p == push(r.descriptors, g)
        pushed == [r EXCEPT !.descriptors = p.descriptors]
    IN  [registry |-> IF p.panic # NoPanic THEN pushed ELSE visit_metrics(pushed, g),
         panic |-> p.panic,
         forced |-> TRUE]

\* Registry::register_collector
register_collector(r, g) ==
    LET p == push(r.descriptors, g)
        pushed == [r EXCEPT !.descriptors = p.descriptors]
    IN  [registry |-> IF p.panic # NoPanic THEN pushed
                      ELSE inner_register_collector(pushed, "Collector", g),
         panic |-> p.panic,
         forced |-> FALSE]

\* A registration of globals that ignores both laziness flags.
register_global_metrics_AlwaysEager(r, g, force_lazy) == register_metrics(r, g)

\* Registry::register_global_metrics
register_global_metrics(r, g, force_lazy) ==
    IF force_lazy \/ r.is_lazy
    THEN LET p == push(r.descriptors, g)
             pushed == [r EXCEPT !.descriptors = p.descriptors]
         IN  [registry |-> IF p.panic # NoPanic THEN pushed
                           ELSE inner_register_collector(pushed, "LazyGlobalCollector", g),
              panic |-> p.panic,
              forced |-> FALSE]
    ELSE register_metrics(r, g)

(***************************************************************************)
(* The OpenMetrics text that prometheus-client's text::encode writes, one  *)
(* write_str call per piece of a line.                                     *)
(***************************************************************************)
TypeWord(ty) ==
    CASE ty = "Counter" -> CounterWord
      [] ty = "Gauge" -> GaugeWord
      [] ty = "Histogram" -> HistogramWord
      [] ty = "Info" -> InfoWord

\* The descriptor of a metric: HELP (the help ends with a full stop), TYPE, and
\* UNIT when there is a unit.
EncodeDescriptor(field) ==
    <<HelpPrefix, full_name(field), <<" ">>, field.help \o <<".">>, NL,
      TypePrefix, full_name(field), <<" ">>, TypeWord(field.metric_type), NL>>
    \o (IF field.unit # <<>>
        THEN <<UnitPrefix, full_name(field), <<" ">>, field.unit, NL>>
        ELSE <<>>)

\* The state of a group's metrics: "uninit" (the Lazy holding them is not
\* initialized), "init" (built, never touched) or "touched" (the counter was
\* incremented, the gauge and the info were set).
InstanceStates == {"uninit", "init", "touched"}

\* The value lines of a metric: a counter is reported as `name_total`, an Info
\* that is set as `name_info{..} 1`, an Info that is not set has no line.
EncodeValue(field, st) ==
    LET value == IF st = "touched" THEN <<"1">> ELSE <<"0">>
    IN  CASE field.metric_type = "Counter" ->
                <<full_name(field), TotalSuffix, <<" ">>, value, NL>>
          [] field.metric_type = "Gauge" ->
                <<full_name(field), <<" ">>, value, NL>>
          [] field.metric_type = "Info" ->
                IF st = "touched"
                THEN <<full_name(field), InfoSuffix,
                       <<"{", "v", "=", "\"", "1", "\"", "}">>, <<" ">>, <<"1">>, NL>>
                ELSE <<>>

EncodeMetric(descriptor, st) ==
    LET field == Group(descriptor.group).metrics[descriptor.field]
    IN  EncodeDescriptor(field) \o EncodeValue(field, st)

\* Metrics::visit_metrics with a MetricsEncoder: every metric of the group.
RECURSIVE EncodeGroup(_, _, _)
EncodeGroup(g, st, i) ==
    IF i > Len(Group(g).metrics) THEN <<>>
    ELSE EncodeMetric(FullMetricDescriptor_new(g, i), st) \o EncodeGroup(g, st, i + 1)

\* LazyGlobalCollector: the group is visited only if its Lazy is initialized.
LazyGlobalCollector_encode(g, st) ==
    IF st = "uninit" THEN <<>> ELSE EncodeGroup(g, st, 1)

\* What a collector's hook returns when called: the hook is unset, or it
\* returns the metrics (Some) or, once the state it tracks is dropped, None.
HookResults == {"unset", "Some", "None"}

\* <Option<M> as Metrics>::visit_metrics: the metrics are visited only if
\* the value is Some; metrics produced by a hook carry values.
Option_visit_metrics(g, value) ==
    IF value = "Some" THEN EncodeGroup(g, "touched", 1) ELSE <<>>

\* <&Collector as CollectorTrait>::collect: nothing before before_scrape has set
\* the hook; then the metrics of what the hook returns.
Collector_collect_IgnoringNone(g, hook) ==
    IF hook = "unset" THEN <<>> ELSE EncodeGroup(g, "touched", 1)

Collector_collect(g, hook) ==
    IF hook = "unset" THEN <<>> ELSE Option_visit_metrics(g, hook)

RECURSIVE EncodeMetrics(_, _, _)
EncodeMetrics(metrics, states, i) ==
    IF i > Len(metrics) THEN <<>>
    ELSE EncodeMetric(metrics[i], states[metrics[i].group])
         \o EncodeMetrics(metrics, states, i + 1)

RECURSIVE EncodeCollectors(_, _, _, _)
EncodeCollectors(collectors, states, hook, i) ==
    IF i > Len(collectors) THEN <<>>
    ELSE LET c == collectors[i]
         IN  (IF c.kind = "Collector"
              THEN Collector_collect(c.group, hook[c.group])
              ELSE LazyGlobalCollector_encode(c.group, states[c.group]))
             \o EncodeCollectors(collectors, states, hook, i + 1)

\* text::encode(writer, &registry.inner): the registered metrics, then what the
\* collectors produce, then the terminator.
text_encode(inner, states, hook) ==
    EncodeMetrics(inner.metrics, states, 1)
    \o EncodeCollectors(inner.collectors, states, hook, 1)
    \o <<EofLine, NL>>

\* The write_str calls of text::encode on a wrapper, up to the first error.
RECURSIVE WriteAll(_, _, _)
WriteAll(w, pieces, i) ==
    IF i > Len(pieces) \/ w.err THEN w
    ELSE WriteAll(write_str(w, pieces[i]), pieces, i + 1)

\* Registry::encode: the text written and whether an error was returned.
Registry_encode(r, fmt, states, hook) ==
    LET pieces == text_encode(r.inner, states, hook)
    IN  IF fmt \in PrometheusFormats
        THEN LET written == WriteAll(WrapperFor(fmt), pieces, 1)
                 done == IF written.err THEN written ELSE flush(written)
             IN  [format |-> fmt, text |-> done.writer, err |-> done.err]
        ELSE [format |-> fmt, text |-> Concat(pieces), err |-> FALSE]

(***************************************************************************)
(* A Registry being filled and scraped while the application touches its   *)
(* global metrics.  A panic of a registration call ends the run.           *)
(***************************************************************************)
VARIABLES
    registry,   \* the Registry: [descriptors, inner, is_lazy]
    globals,    \* per group: the state of its `static` Global (InstanceStates)
    hooks,      \* the groups whose `static` Collector has its before_scrape hook
    dropped,    \* the groups whose hook tracks state that has been dropped
    produced,   \* history: the groups whose collector gave metrics to an encode
    panicked,   \* the panic raised by a registration call, or NoPanic
    out,        \* what the last call returned if it was encode, else NoOutput
    regs        \* history: the registration calls, with what held when each was made

regvars == <<registry, globals, hooks, dropped, produced, panicked, out, regs>>

NoOutput == [format |-> "None", text |-> <<>>, err |-> FALSE]

RegistryInit ==
    /\ \E lazy \in BOOLEAN : registry = [Registry_empty EXCEPT !.is_lazy = lazy]
    /\ globals = [g \in GroupNames |-> "uninit"]
    /\ hooks = {}
    /\ dropped = {}
    /\ produced = {}
    /\ panicked = NoPanic
    /\ out = NoOutput
    /\ regs = <<>>

\* What each group's collector hook returns when called now.
HookOf ==
    [g \in GroupNames |->
        IF g \notin hooks THEN "unset"
        ELSE IF g \in dropped THEN "None" ELSE "Some"]

\* Whether some metric of the group has a full name that is already registered,
\* or that an earlier field of the group has.
Clashes(r, g) ==
    \E i \in 1..Len(Group(g).metrics) :
        \/ full_name(Group(g).metrics[i]) \in DOMAIN r.descriptors.metrics_by_name
        \/ \E j \in 1..(i - 1) : full_name(Group(g).metrics[j]) = full_name(Group(g).metrics[i])

\* The state after a registration call that returned `result`.
Registered(g, mode, result) ==
    /\ panicked = NoPanic
    /\ registry' = result.registry
    /\ panicked' = result.panic
    /\ globals' = IF result.forced /\ globals[g] = "uninit"
                  THEN [globals EXCEPT ![g] = "init"] ELSE globals
    /\ regs' = Append(regs, [group |-> g, mode |-> mode, clash |-> Clashes(registry, g)])
    /\ out' = NoOutput
    /\ UNCHANGED <<hooks, dropped, produced>>

\* registry.register_metrics(&*GLOBAL)
RegisterMetrics(g) == Registered(g, "eager", register_metrics(registry, g))

\* Global::collect_to_registry (force_lazy = false) and the lazy registration
\* of a MetricsFamily (force_lazy = true).
RegisterGlobalMetrics(g, force_lazy) ==
    Registered(g, IF force_lazy \/ registry.is_lazy THEN "lazy" ELSE "eager",
               register_global_metrics(registry, g, force_lazy))

\* registry.register_collector(&COLLECTOR)
RegisterCollector(g) == Registered(g, "collector", register_collector(registry, g))

\* Instrumentation code uses the group's Global: the first use initializes it.
Touch(g) ==
    /\ panicked = NoPanic
    /\ globals[g] # "touched"
    /\ globals' = [globals EXCEPT ![g] = "touched"]
    /\ out' = NoOutput
    /\ UNCHANGED <<registry, hooks, dropped, produced, panicked, regs>>

\* Collector::before_scrape of a registered collector (the first call; a later
\* one returns an error and changes nothing).
BeforeScrape(g) ==
    /\ panicked = NoPanic
    /\ g \notin hooks
    /\ \E i \in 1..Len(registry.inner.collectors) :
            registry.inner.collectors[i] = [kind |-> "Collector", group |-> g]
    /\ hooks' = hooks \cup {g}
    /\ out' = NoOutput
    /\ UNCHANGED <<registry, globals, dropped, produced, panicked, regs>>

\* The state a hook holds a Weak reference to is dropped: from now on the
\* hook returns None.
DropState(g) ==
    /\ panicked = NoPanic
    /\ g \in hooks
    /\ g \notin dropped
    /\ dropped' = dropped \cup {g}
    /\ out' = NoOutput
    /\ UNCHANGED <<registry, globals, hooks, produced, panicked, regs>>

\* registry.encode(&mut buffer, format)
Encode(fmt) ==
    /\ panicked = NoPanic
    /\ out' = Registry_encode(registry, fmt, globals, HookOf)
    /\ produced' = produced \cup
            {g \in GroupNames :
                /\ HookOf[g] = "Some"
                /\ \E i \in 1..Len(registry.inner.collectors) :
                        registry.inner.collectors[i]
                            = [kind |-> "Collector", group |-> g]}
    /\ UNCHANGED <<registry, globals, hooks, dropped, panicked, regs>>


\* The lines of the last encode's output.
OutLines == Lines(out.text)

\* The modes in which the group has been registered.
ModesOf(g) == {regs[k].mode : k \in {j \in 1..Len(regs) : regs[j].group = g}}

\* The places <<call, field>> that define a metric of the given full name, in
\* the order of the registration calls.
DefinitionsOf(n) ==
    {<<k, i>> \in (1..Len(regs)) \X (1..2) :
        /\ i <= Len(Group(regs[k].group).metrics)
        /\ full_name(Group(regs[k].group).metrics[i]) = n}

EarliestOf(D) == CHOOSE p \in D : \A q \in D : p[1] < q[1] \/ (p[1] = q[1] /\ p[2] <= q[2])

LatestOf(D) == CHOOSE p \in D : \A q \in D : p[1] > q[1] \/ (p[1] = q[1] /\ p[2] >= q[2])

SiteOf(p) == format_for_panic(FullMetricDescriptor_new(regs[p[1]].group, p[2]))

\* C4: a registration call panics exactly when the group holds a metric whose
\* full name is already registered; the panic names the metric, the new
\* definition's site and the previous definition's site; the index maps a name
\* to anything but its first definition only in a panic about that name; and
\* encode never runs on a registry that took a clashing group.
C4_DuplicateNamePanicsAtRegistration ==
    /\ \A k \in 1..Len(regs) :
        regs[k].clash <=> (k = Len(regs) /\ panicked # NoPanic)
    /\ panicked # NoPanic =>
        LET D == DefinitionsOf(panicked.name)
        IN  /\ Cardinality(D) >= 2
            /\ LatestOf(D)[1] = Len(regs)
            /\ panicked.descriptor = SiteOf(LatestOf(D))
            /\ panicked.prev_descriptor = SiteOf(EarliestOf(D))
    /\ \A n \in DOMAIN registry.descriptors.metrics_by_name :
        LET first == EarliestOf(DefinitionsOf(n))
            stored == registry.descriptors.metrics_by_name[n]
        IN  stored # FullMetricDescriptor_new(regs[first[1]].group, first[2]) =>
                panicked # NoPanic /\ panicked.name = n
    /\ out # NoOutput => \A k \in 1..Len(regs) : ~regs[k].clash

\* `Store` was registered after `Cache` (or the reverse): the panic is about
\* `g_bytes`, a name that one group reaches through its unit suffix, and names
\* two different sites.
C4_Witness ==
    /\ panicked # NoPanic
    /\ panicked.name = <<"g", "_">> \o BytesWord
    /\ panicked.descriptor.group_name # panicked.prev_descriptor.group_name

\* Whether a line is about the metric: its HELP, TYPE or UNIT line, or a value line.
IsAbout(line, field) ==
    \/ \E prefix \in {HelpPrefix, TypePrefix, UnitPrefix} :
            StartsWith(line, prefix \o full_name(field) \o <<" ">>)
    \/ \E stop \in {<<" ">>, <<"{">>, <<"_">>} : StartsWith(line, field.name \o stop)

\* The output holds the group's metrics: for every metric its HELP and TYPE
\* lines and, unless it is an Info, a value line.
HoldsGroup(lines, g) ==
    \A i \in 1..Len(Group(g).metrics) :
        LET field == Group(g).metrics[i]
            has(prefix) == \E j \in 1..Len(lines) :
                                StartsWith(lines[j], prefix \o full_name(field) \o <<" ">>)
        IN  /\ has(HelpPrefix)
            /\ has(TypePrefix)
            /\ field.metric_type # "Info" =>
                    \E j \in 1..Len(lines), suffix \in {<<>>, TotalSuffix} :
                        StartsWith(lines[j], full_name(field) \o suffix \o <<" ">>)

\* No line of the output is about a metric of the group.
OmitsGroup(lines, g) ==
    \A i \in 1..Len(Group(g).metrics), j \in 1..Len(lines) :
        ~IsAbout(lines[j], Group(g).metrics[i])

\* The group is to be exported: registered eagerly, or lazily and initialized.
Exported(g) ==
    \/ "eager" \in ModesOf(g)
    \/ "lazy" \in ModesOf(g) /\ globals[g] # "uninit"

\* The registry holds only lazily registered groups that are not initialized.
OnlyUninitializedLazy ==
    /\ regs # <<>>
    /\ \A k \in 1..Len(regs) : regs[k].mode = "lazy" /\ globals[regs[k].group] = "uninit"

\* What encode has written for every group registered eagerly or lazily; and a
\* lazy registration has left the group for its first touch to initialize.
ExportsExactlyTheInitialized ==
    \A g \in GroupNames :
        (ModesOf(g) # {} /\ "collector" \notin ModesOf(g)) =>
            /\ Exported(g) => HoldsGroup(OutLines, g)
            /\ ~Exported(g) => OmitsGroup(OutLines, g)
            /\ (ModesOf(g) = {"lazy"} /\ globals[g] # "touched") => globals[g] = "uninit"

\* C5 as stated: the output holds a group's metrics exactly if the group was
\* registered eagerly or is lazy and initialized, and a registry of only
\* uninitialized lazy groups encodes to the single line `# EOF`, in any format.
C5_AsStated ==
    out # NoOutput =>
        /\ ExportsExactlyTheInitialized
        /\ OnlyUninitializedLazy => OutLines = <<EofLine>>

\* C5: the output holds a group's metrics exactly if the group was registered
\* eagerly (even if never touched) or lazily and is initialized when encode
\* runs; a registry of only uninitialized lazy groups encodes to `# EOF` and a
\* newline in the formats that keep the terminator and to the empty text in
\* Format::Prometheus.
C5_LazyGroupsExportedOnceInitialized ==
    out # NoOutput =>
        /\ ExportsExactlyTheInitialized
        /\ OnlyUninitializedLazy =>
                out.text = IF out.format = "Prometheus" THEN <<>> ELSE EofLine \o NL

\* An encode of a registry holding an eager group never touched and a lazy
\* group not initialized, in a format that keeps the terminator.
C5_Witness ==
    /\ out.format = "OpenMetrics"
    /\ \E g \in GroupNames : ModesOf(g) = {"eager"} /\ globals[g] = "init"
    /\ \E g \in GroupNames : ModesOf(g) = {"lazy"} /\ globals[g] = "uninit"

\* The full names of the Info metrics of all groups.
InfoNames ==
    {full_name(Group(g).metrics[i]) :
        <<g, i>> \in {p \in GroupNames \X (1..2) :
                        /\ p[2] <= Len(Group(p[1]).metrics)
                        /\ Group(p[1]).metrics[p[2]].metric_type = "Info"}}

\* The lines text::encode writes for the registry as it is, untranslated.
CanonicalLines == Lines(Concat(text_encode(registry.inner, globals, HookOf)))

\* The output has a line for every canonical line, and the value lines of the
\* Info metrics have lost their `_info` suffix and nothing else.
InfoSuffixStripped ==
    /\ Len(OutLines) = Len(CanonicalLines)
    /\ \A i \in 1..Len(CanonicalLines), n \in InfoNames :
        StartsWith(CanonicalLines[i], n \o InfoSuffix) =>
            OutLines[i] = n \o StripPrefix(CanonicalLines[i], n \o InfoSuffix)

\* The output's line for every TYPE line of an Info metric declares this kind.
InfoTypeLinesDeclare(kind) ==
    /\ Len(OutLines) = Len(CanonicalLines)
    /\ \A i \in 1..Len(CanonicalLines), n \in InfoNames :
        CanonicalLines[i] = TypePrefix \o n \o <<" ">> \o InfoWord =>
            OutLines[i] = TypePrefix \o n \o <<" ">> \o kind

EofKept == OutLines # <<>> /\ OutLines[Len(OutLines)] = EofLine

\* C9 as stated: encoding in Format::OpenMetricsForPrometheus rewrites the kind
\* of every Info metric's TYPE line to `gauge`, strips `_info` from its value
\* lines and keeps the `# EOF` terminator.
C9_AsStated ==
    out.format = "OpenMetricsForPrometheus" =>
        /\ InfoTypeLinesDeclare(GaugeWord)
        /\ InfoSuffixStripped
        /\ EofKept

\* C9: encoding in Format::OpenMetricsForPrometheus strips `_info` from the
\* value lines of every Info metric and keeps the `# EOF` terminator, and the
\* TYPE line of an Info metric keeps the kind `info`; it is Format::Prometheus
\* that rewrites the kind to `gauge`.
C9_InfoTypeKeptInOpenMetricsForPrometheus ==
    /\ out.format = "OpenMetricsForPrometheus" =>
        /\ InfoTypeLinesDeclare(InfoWord)
        /\ InfoSuffixStripped
        /\ EofKept
    /\ out.format = "Prometheus" =>
        \A i \in 1..Len(CanonicalLines), n \in InfoNames :
            CanonicalLines[i] = TypePrefix \o n \o <<" ">> \o InfoWord =>
                /\ i <= Len(OutLines)
                /\ OutLines[i] = TypePrefix \o n \o <<" ">> \o GaugeWord

\* An Info metric that is set was encoded in Format::OpenMetricsForPrometheus:
\* `# TYPE p info` and `p{v="1"} 1` are in the output, which ends with `# EOF`.
C9_Witness ==
    /\ out.format = "OpenMetricsForPrometheus"
    /\ \E i \in 1..Len(OutLines) : OutLines[i] = TypePrefix \o <<"p", " ">> \o InfoWord
    /\ \E i \in 1..Len(OutLines) :
        OutLines[i] = <<"p", "{", "v", "=", "\"", "1", "\"", "}", " ", "1">>
    /\ EofKept

\* C10: the output of an encode in Format::Prometheus has no line `# EOF`; the
\* output of an encode in Format::OpenMetricsForPrometheus has `# EOF` as its
\* last line and as no other line; neither encode returns an error.
C10_EofOnlyWhereTheFormatKeepsIt ==
    /\ out.format = "Prometheus" =>
        /\ ~out.err
        /\ \A i \in 1..Len(OutLines) : OutLines[i] # EofLine
    /\ out.format = "OpenMetricsForPrometheus" =>
        /\ ~out.err
        /\ EofKept
        /\ \A i \in 1..(Len(OutLines) - 1) : OutLines[i] # EofLine

\* A registry with an eager group and a collector whose hook is set was encoded
\* in Format::Prometheus: metrics came out, the terminator did not.
C10_Witness ==
    /\ out.format = "Prometheus"
    /\ hooks # {}
    /\ registry.inner.metrics # <<>>
    /\ Len(OutLines) = Len(CanonicalLines) - 1
    /\ Len(OutLines) > 6

\* The group is registered as a collector only, and its hook is unset or
\* returns None.
SilentCollector(g) ==
    /\ ModesOf(g) = {"collector"}
    /\ HookOf[g] \in {"unset", "None"}

OnlySilentCollectors ==
    /\ regs # <<>>
    /\ \A k \in 1..Len(regs) : SilentCollector(regs[k].group)

\* C17 (as stated): a registered collector whose hook is unset or returns
\* None contributes no line, and a registry holding only such collectors
\* encodes to exactly `# EOF`.
C17_AsStated ==
    out.format # "None" =>
        /\ ~out.err
        /\ \A g \in GroupNames : SilentCollector(g) => OmitsGroup(OutLines, g)
        /\ OnlySilentCollectors => out.text = EofLine \o NL

\* C17: a registered collector whose hook is unset or returns None
\* contributes no line, also after earlier encodes held its metrics; a
\* registry holding only such collectors encodes to exactly `# EOF`, and to
\* nothing in Format::Prometheus, which drops the terminator.
C17_SilentCollectorContributesNothing ==
    out.format # "None" =>
        /\ ~out.err
        /\ \A g \in GroupNames : SilentCollector(g) => OmitsGroup(OutLines, g)
        /\ OnlySilentCollectors =>
              out.text = (IF out.format = "Prometheus" THEN <<>>
                          ELSE EofLine \o NL)

\* A collector that gave metrics to an earlier encode has had its state
\* dropped, and the registry, which holds nothing else, was encoded again.
C17_Witness ==
    /\ out.format = "OpenMetrics"
    /\ OnlySilentCollectors
    /\ \E g \in produced : g \in dropped /\ SilentCollector(g)
    /\ out.text = EofLine \o NL

(***************************************************************************)
(* vise-exporter: MetricsExporter::push_to_gateway.  Time is counted in    *)
(* seconds; the loop is one task, its awaits are the points where time     *)
(* passes and where the shutdown future may resolve.                       *)
(***************************************************************************)
ERROR_LOG_INTERVAL == 60

MaxTime == 100

TickSeconds == 10

PushIntervals == {20, 30}

None == <<>>

Some(t) == <<t>>

EncodeResults == {"Ok", "Err"}

RequestOutcomes == {"Success", "NonSuccess", "TransportError"}

IsFailure(o) == o \in {"NonSuccess", "TransportError"}

\* render_body: the encode result is unwrapped inside the blocking task and
\* the task's result is unwrapped again, so an encode error is a panic of the
\* caller.
render_body(encoded) == IF encoded = "Err" THEN "Panic" ELSE "Body"

\* last_error_log_timestamp.map_or(true, |t| t.elapsed() >= ERROR_LOG_INTERVAL)
should_log_error_Always(timestamp, at) == TRUE

should_log_error(timestamp, at) ==
    IF timestamp = None THEN TRUE ELSE at - timestamp[1] >= ERROR_LOG_INTERVAL

\* `if shutdown_requested { break; }` at the end of the loop body.
LoopBreaks_Never(requested, o) == FALSE

LoopBreaks_OnTransportError(requested, o) == requested \/ o = "TransportError"

LoopBreaks(requested, o) == requested

VARIABLES interval, now, ppc, wait_start, shutdown_fired, shutdown_requested,
          last_error_log_timestamp, error_log, pushes

pushvars == <<interval, now, ppc, wait_start, shutdown_fired,
              shutdown_requested, last_error_log_timestamp, error_log, pushes>>

PushInit ==
    /\ interval \in PushIntervals
    /\ now = 0
    /\ ppc = "wait"
    /\ wait_start = 0
    /\ shutdown_fired = FALSE
    /\ shutdown_requested = FALSE
    /\ last_error_log_timestamp = None
    /\ error_log = <<>>
    /\ pushes = <<>>

\* Time passes while the loop is suspended in an await.
Tick ==
    /\ ppc \in {"wait", "request"}
    /\ now + TickSeconds <= MaxTime
    /\ now' = now + TickSeconds
    /\ UNCHANGED <<interval, ppc, wait_start, shutdown_fired,
                   shutdown_requested, last_error_log_timestamp, error_log,
                   pushes>>

\* The future given to with_graceful_shutdown resolves.
ShutdownSignal ==
    /\ ~shutdown_fired
    /\ ppc \notin {"done", "panicked"}
    /\ shutdown_fired' = TRUE
    /\ UNCHANGED <<interval, now, ppc, wait_start, shutdown_requested,
                   last_error_log_timestamp, error_log, pushes>>

\* tokio::time::timeout(interval, &mut shutdown) elapses.
WaitTimeout ==
    /\ ppc = "wait"
    /\ ~shutdown_fired
    /\ now - wait_start >= interval
    /\ ppc' = "render"
    /\ UNCHANGED <<interval, now, wait_start, shutdown_fired,
                   shutdown_requested, last_error_log_timestamp, error_log,
                   pushes>>

\* tokio::time::timeout(interval, &mut shutdown) returns Ok: the shutdown
\* future resolved first.
WaitShutdown ==
    /\ ppc = "wait"
    /\ shutdown_fired
    /\ shutdown_requested' = TRUE
    /\ ppc' = "render"
    /\ UNCHANGED <<interval, now, wait_start, shutdown_fired,
                   last_error_log_timestamp, error_log, pushes>>

\* The request is built from render_body() and handed to the client.
RenderBody(encoded) ==
    /\ ppc = "render"
    /\ LET body == render_body(encoded)
       IN  /\ pushes' = Append(pushes,
                  [at |-> now, final |-> shutdown_requested,
                   outcome |-> IF body = "Panic" THEN "Panic" ELSE "InFlight"])
           /\ ppc' = IF body = "Panic" THEN "panicked" ELSE "request"
    /\ UNCHANGED <<interval, now, wait_start, shutdown_fired,
                   shutdown_requested, last_error_log_timestamp, error_log>>

\* client.request(request).await returns and the match arm runs; the loop
\* then breaks or goes back to its top, where shutdown_requested is reset.
PushCompletes(o) ==
    /\ ppc = "request"
    /\ LET logged == IsFailure(o)
                     /\ should_log_error(last_error_log_timestamp, now)
           breaks == LoopBreaks(shutdown_requested, o)
       IN  /\ last_error_log_timestamp' =
                  IF logged THEN Some(now) ELSE last_error_log_timestamp
           /\ error_log' =
                  IF logged THEN Append(error_log, [at |-> now, kind |-> o])
                  ELSE error_log
           /\ pushes' = [pushes EXCEPT ![Len(pushes)].outcome = o]
           /\ ppc' = IF breaks THEN "done" ELSE "wait"
           /\ wait_start' = IF breaks THEN wait_start ELSE now
           /\ shutdown_requested' =
                  IF breaks THEN shutdown_requested ELSE FALSE
    /\ UNCHANGED <<interval, now, shutdown_fired>>

(***************************************************************************)
(* Claims about the push loop                                              *)
(***************************************************************************)
FinalPushes == {i \in DOMAIN pushes : pushes[i].final}

LastPush == pushes[Len(pushes)]

\* C12: when the shutdown signal is observed in the wait, the loop makes
\* exactly one more push and then ends: the push made after the signal is
\* the last one, no wait follows it whatever its outcome, and the loop has
\* ended normally only after that one push.
C12_OneFinalPushThenStop ==
    /\ Cardinality(FinalPushes) <= 1
    /\ \A i \in FinalPushes : i = Len(pushes)
    /\ shutdown_requested =>
          /\ ppc \in {"render", "request", "done", "panicked"}
          /\ (ppc = "render") = (FinalPushes = {})
    /\ (FinalPushes # {} /\ LastPush.outcome # "InFlight") =>
          ppc \in {"done", "panicked"}
    /\ ppc = "done" => (shutdown_requested /\ FinalPushes = {Len(pushes)})

C12_Witness ==
    /\ ppc = "done"
    /\ Len(pushes) >= 2
    /\ LastPush.final
    /\ LastPush.outcome = "TransportError"

\* C13: while no shutdown was requested, a push that ends with a non-success
\* status or a transport error puts the loop back at the start of a wait: no
\* push outcome ends the loop.  A wait whose interval has elapsed can always
\* end, the push that follows it can always start, and consecutive pushes are
\* at least one interval apart.
C13_FailedPushIsFollowedByAnother ==
    /\ [][(ppc = "request" /\ ppc' # "request" /\ ~shutdown_requested)
            => (ppc' = "wait" /\ wait_start' = now)]_pushvars
    /\ [](ppc = "wait" /\ now - wait_start >= interval
            => (ENABLED WaitTimeout \/ ENABLED WaitShutdown))
    /\ [](ppc = "render" => ENABLED RenderBody("Ok"))
    /\ [](\A i \in DOMAIN pushes :
            (i > 1 /\ ~pushes[i].final) =>
                pushes[i].at - pushes[i - 1].at >= interval)

C13_Witness ==
    /\ Len(pushes) >= 3
    /\ pushes[1].outcome = "TransportError"
    /\ pushes[2].outcome = "NonSuccess"
    /\ ~pushes[3].final

Failures == {i \in DOMAIN pushes : IsFailure(pushes[i].outcome)}

\* C14: transport errors and non-success responses share one last-logged
\* timestamp: a failed push is logged exactly when no failure of either kind
\* was logged less than ERROR_LOG_INTERVAL before it, so two logged messages
\* are never closer than ERROR_LOG_INTERVAL whatever the push interval is,
\* and a failure that is not logged still sends the loop back to its wait.
C14_FailuresLoggedOncePerWindow ==
    /\ [](last_error_log_timestamp =
            IF error_log = <<>> THEN None
            ELSE Some(error_log[Len(error_log)].at))
    /\ [](\A i \in DOMAIN error_log :
            i > 1 => error_log[i].at - error_log[i - 1].at >= ERROR_LOG_INTERVAL)
    /\ [][(ppc = "request" /\ ppc' # "request") =>
            LET o == pushes'[Len(pushes')].outcome
                quiet == \/ error_log = <<>>
                         \/ now - error_log[Len(error_log)].at
                                >= ERROR_LOG_INTERVAL
            IN  /\ error_log' =
                      IF IsFailure(o) /\ quiet
                      THEN Append(error_log, [at |-> now, kind |-> o])
                      ELSE error_log
                /\ ~shutdown_requested => ppc' = "wait"]_pushvars

C14_Witness ==
    /\ Len(error_log) = 2
    /\ error_log[1].kind # error_log[2].kind
    /\ Cardinality(Failures) >= 3

\* C15 (as stated, for the push loop): a push whose encode fails is the only
\* thing that fails; the loop goes on to its next wait, or ends if that push
\* was the final one.
C15_AsStated ==
    (pushes # <<>> /\ LastPush.outcome = "Panic") =>
        ppc = (IF LastPush.final THEN "done" ELSE "wait")

(***************************************************************************)
(* vise-exporter: the pull server.  MetricsExporter::bind serves render()  *)
(* on every connection and hands the shutdown future to the HTTP server;   *)
(* accepting, draining and completion of the server are those of graceful  *)
(* shutdown: stop accepting, let every open connection finish its request  *)
(* in flight and close, complete when all connections are closed.          *)
(***************************************************************************)
MaxConns == 3

Conns == 1 .. MaxConns

\* MetricsExporterInner::render: status 200 around the body of render_body;
\* a panic of render_body is a panic of the handler.
render(encoded) ==
    IF render_body(encoded) = "Panic" THEN "Panic" ELSE "200 OK"

VARIABLES srv, conn, reply, at_signal

srvvars == <<srv, conn, reply, at_signal>>

ServerInit ==
    /\ srv = "serving"
    /\ conn = [c \in Conns |-> "new"]
    /\ reply = [c \in Conns |-> "none"]
    /\ at_signal = {}

\* The listener accepts a connection.
Accept(c) ==
    /\ srv = "serving"
    /\ conn[c] = "new"
    /\ conn' = [conn EXCEPT ![c] = "open"]
    /\ UNCHANGED <<srv, reply, at_signal>>

\* A request arrives on an open connection and the service function starts.
ReceiveRequest(c) ==
    /\ conn[c] = "open"
    /\ conn' = [conn EXCEPT ![c] = "busy"]
    /\ reply' = [reply EXCEPT ![c] = "pending"]
    /\ UNCHANGED <<srv, at_signal>>

\* The service function returns render()'s response, or panics with it.  A
\* panic ends the connection; a connection told to drain closes after the
\* response.
Respond(c, encoded) ==
    /\ conn[c] = "busy"
    /\ LET r == render(encoded)
       IN  /\ reply' = [reply EXCEPT ![c] = r]
           /\ conn' = [conn EXCEPT ![c] =
                  IF r = "Panic" \/ srv = "draining" THEN "closed" ELSE "open"]
    /\ UNCHANGED <<srv, at_signal>>

\* The client closes a connection that has no request in flight.
ClientCloses(c) ==
    /\ conn[c] = "open"
    /\ conn' = [conn EXCEPT ![c] = "closed"]
    /\ UNCHANGED <<srv, reply, at_signal>>

\* The shutdown future resolves: the listener stops, connections without a
\* request in flight are closed, the others drain.
ServerShutdown ==
    /\ srv = "serving"
    /\ srv' = "draining"
    /\ at_signal' = {c \in Conns : conn[c] = "busy"}
    /\ conn' = [c \in Conns |-> IF conn[c] = "open" THEN "closed" ELSE conn[c]]
    /\ UNCHANGED reply

\* The server future, and with it MetricsServer::start, completes.
StartCompletes ==
    /\ srv = "draining"
    /\ \A c \in Conns : conn[c] \in {"new", "closed"}
    /\ srv' = "stopped"
    /\ UNCHANGED <<conn, reply, at_signal>>

\* C11 (as stated): connections are accepted only until the shutdown signal;
\* every request in flight at the signal completes with a successful
\* response; start() completes only after every open connection has closed.
C11_AsStated ==
    /\ [][srv # "serving" =>
            \A c \in Conns : conn[c] = "new" => conn'[c] = "new"]_srvvars
    /\ [](\A c \in at_signal : conn[c] = "closed" => reply[c] = "200 OK")
    /\ [](\A c \in at_signal : conn[c] # "closed" => conn[c] = "busy")
    /\ [](srv = "stopped" => \A c \in Conns : conn[c] \in {"new", "closed"})

\* What holds instead: the same, except that a request whose encode fails
\* ends in a panic of its handler and gets no response.
ShutdownDrainsExceptWhereEncodeFails ==
    /\ [][srv # "serving" =>
            \A c \in Conns : conn[c] = "new" => conn'[c] = "new"]_srvvars
    /\ [](\A c \in at_signal :
            conn[c] = "closed" => reply[c] \in {"200 OK", "Panic"})
    /\ [](\A c \in at_signal : conn[c] # "closed" => conn[c] = "busy")
    /\ [](srv = "stopped" => \A c \in Conns : conn[c] \in {"new", "closed"})

(***************************************************************************)
(* MetricsFamily: groups of metrics keyed by a label set, encoded grouped  *)
(* by metric (encoding.rs, metrics.rs).  The output is the sequence of     *)
(* calls made on the upstream encoder: one descriptor per call of          *)
(* encode_descriptor, one series per call of encode_family.                *)
(***************************************************************************)
Methods == {"eth_call", "eth_blockNumber"}

Codes == {"0", "3"}

\* struct MethodMetrics of the group_registration test: a counter and a
\* family of counters labelled by `code`.
GroupFields ==
    << [name |-> "rpc_method_errors", family |-> FALSE],
       [name |-> "rpc_method_return_codes", family |-> TRUE] >>

GroupMetricNames == {GroupFields[i].name : i \in DOMAIN GroupFields}

LabelGroups_default == [labels |-> <<>>, metrics_by_name |-> <<>>]

\* LabelGroups::push_labels
push_labels(grouped, labels) ==
    [grouped EXCEPT !.labels = Append(@, labels)]

\* LabelGroups::push_metric: the entry of `name` is created on first use;
\* the instance is stored with the index of the current label group.
push_metric(grouped, name, metric) ==
    LET by_name == grouped.metrics_by_name
        current_group_idx == Len(grouped.labels)
        instances == IF name \in DOMAIN by_name THEN by_name[name] ELSE <<>>
    IN  [grouped EXCEPT !.metrics_by_name =
            [n \in DOMAIN by_name \cup {name} |->
                IF n = name
                THEN Append(instances, <<current_group_idx, metric>>)
                ELSE by_name[n]]]

\* <FullLabelSet as EncodeLabelSet>::encode: the group's labels, then the
\* metric's own.
FullLabelSet_encode_InnerFirst(group_labels, inner) == inner \o group_labels

FullLabelSet_encode(group_labels, inner) == group_labels \o inner

Series(name, labels) == [line |-> "series", name |-> name, labels |-> labels]

Descriptor(name) == [line |-> "TYPE", name |-> name]

\* <Family as EncodeGroupedMetric>::encode_grouped: one series per label set
\* of the family, under the full label set.
RECURSIVE Family_encode_grouped(_, _, _, _)
Family_encode_grouped(name, keys, group_labels, i) ==
    IF i > Len(keys) THEN <<>>
    ELSE <<Series(name, FullLabelSet_encode(group_labels,
                                            <<<<"code", keys[i]>>>>))>>
         \o Family_encode_grouped(name, keys, group_labels, i + 1)

\* EncodeGroupedMetric::encode_grouped: a metric without labels of its own
\* is one series under the group's labels.
encode_grouped(name, metric, group_labels) ==
    IF metric.family
    THEN Family_encode_grouped(name, metric.keys, group_labels, 1)
    ELSE <<Series(name, group_labels)>>

RECURSIVE EncodeInstances(_, _, _, _)
EncodeInstances(grouped, name, instances, i) ==
    IF i > Len(instances) THEN <<>>
    ELSE encode_grouped(name, instances[i][2],
                        grouped.labels[instances[i][1]])
         \o EncodeInstances(grouped, name, instances, i + 1)

\* LabelGroups::encode: for every name of the map, in the map's iteration
\* order, one descriptor and then every instance under its group's labels.
RECURSIVE LabelGroups_encode(_, _, _)
LabelGroups_encode(grouped, order, i) ==
    IF i > Len(order) THEN <<>>
    ELSE LET instances == grouped.metrics_by_name[order[i]]
         IN  (IF instances = <<>> THEN <<>>
              ELSE <<Descriptor(order[i])>>
                   \o EncodeInstances(grouped, order[i], instances, 1))
             \o LabelGroups_encode(grouped, order, i + 1)

\* Metrics::visit_metrics of one group: every field is handed to the visitor.
RECURSIVE VisitFields(_, _, _)
VisitFields(grouped, metrics, j) ==
    IF j > Len(GroupFields) THEN grouped
    ELSE VisitFields(
            push_metric(grouped, GroupFields[j].name,
                        [family |-> GroupFields[j].family,
                         keys |-> IF GroupFields[j].family
                                  THEN metrics.return_codes ELSE <<>>]),
            metrics, j + 1)

\* <FamilyInner as Metrics>::visit_metrics: every entry sets the labels of
\* its group and has its metrics visited.
RECURSIVE VisitEntries(_, _, _)
VisitEntries(grouped, entries, i) ==
    IF i > Len(entries) THEN grouped
    ELSE VisitEntries(
            VisitFields(push_labels(grouped, <<<<"method", entries[i].labels>>>>),
                        entries[i], 1),
            entries, i + 1)

Orders(S) ==
    {order \in [1 .. Cardinality(S) -> S] :
        \A i, j \in DOMAIN order : order[i] = order[j] => i = j}

VARIABLES mf_entries, mf_out, mf_encoded

mfvars == <<mf_entries, mf_out, mf_encoded>>

GroupInit ==
    /\ mf_entries = <<>>
    /\ mf_out = <<>>
    /\ mf_encoded = FALSE

GroupOf(m) == {i \in DOMAIN mf_entries : mf_entries[i].labels = m}

\* GROUP_METRICS[&m]: get_or_create of the group.
IndexMethod(m) ==
    /\ GroupOf(m) = {}
    /\ mf_entries' = Append(mf_entries, [labels |-> m, return_codes |-> <<>>])
    /\ mf_out' = <<>>
    /\ mf_encoded' = FALSE

\* GROUP_METRICS[&m].return_codes[&c]: get_or_create of the group, then of
\* the code in its family.
IndexReturnCode(m, c) ==
    LET created == IF GroupOf(m) = {}
                   THEN Append(mf_entries, [labels |-> m, return_codes |-> <<>>])
                   ELSE mf_entries
        i == CHOOSE k \in DOMAIN created : created[k].labels = m
    IN  /\ \A k \in DOMAIN created[i].return_codes :
                created[i].return_codes[k] # c
        /\ mf_entries' = [created EXCEPT ![i].return_codes = Append(@, c)]
        /\ mf_out' = <<>>
        /\ mf_encoded' = FALSE

\* The family is visited and the collected groups are encoded; the map of
\* metric names is iterated in some order.
EncodeGroups(order) ==
    LET grouped == VisitEntries(LabelGroups_default, mf_entries, 1)
    IN  /\ ~mf_encoded
        /\ order \in Orders(DOMAIN grouped.metrics_by_name)
        /\ mf_out' = LabelGroups_encode(grouped, order, 1)
        /\ mf_encoded' = TRUE
        /\ UNCHANGED mf_entries

NameOrders == UNION {Orders(S) : S \in SUBSET GroupMetricNames}

DeclarationsOf(name) ==
    {i \in DOMAIN mf_out : mf_out[i] = Descriptor(name)}

SeriesOf(name, labels) ==
    {i \in DOMAIN mf_out : mf_out[i] = Series(name, labels)}

AllSeriesOf(name) ==
    {i \in DOMAIN mf_out : mf_out[i].line = "series" /\ mf_out[i].name = name}

RECURSIVE CodesMaterialized(_)
CodesMaterialized(i) ==
    IF i = 0 THEN 0
    ELSE Len(mf_entries[i].return_codes) + CodesMaterialized(i - 1)

\* C16: an encoded MetricsFamily declares every metric name of the group
\* once, whatever the number of materialized groups (nothing is emitted when
\* there is none), holds one series per materialized label combination, and
\* labels each series with the group's labels followed by the metric's own.
C16_GroupedEncoding ==
    mf_encoded =>
        /\ \A name \in GroupMetricNames :
              Cardinality(DeclarationsOf(name)) =
                  (IF mf_entries = <<>> THEN 0 ELSE 1)
        /\ \A i \in DOMAIN mf_entries :
              LET group_labels == <<<<"method", mf_entries[i].labels>>>>
                  codes == mf_entries[i].return_codes
              IN  /\ Cardinality(SeriesOf("rpc_method_errors", group_labels)) = 1
                  /\ \A k \in DOMAIN codes :
                        Cardinality(SeriesOf("rpc_method_return_codes",
                            group_labels \o <<<<"code", codes[k]>>>>)) = 1
        /\ Cardinality(AllSeriesOf("rpc_method_errors")) = Len(mf_entries)
        /\ Cardinality(AllSeriesOf("rpc_method_return_codes")) =
              CodesMaterialized(Len(mf_entries))

C16_Witness ==
    /\ mf_encoded
    /\ Len(mf_entries) = 2
    /\ Len(mf_entries[1].return_codes) = 2
    /\ Len(mf_entries[2].return_codes) = 1

(***************************************************************************)
(* Info: a value set at most once, shared by the clones of the metric      *)
(* (wrappers.rs).                                                          *)
(***************************************************************************)
InfoValues == {"0.1.0", "0.2.0"}

MaxInfoClones == 2

MaxInfoSets == 3

\* OnceCell::set: the value is stored if the cell is empty and handed back
\* otherwise.
OnceCell_set(cell, value) ==
    IF cell = None THEN [cell |-> Some(value), err |-> None]
    ELSE [cell |-> cell, err |-> Some(value)]

\* Info::set: self.0.set(value).map_err(SetInfoError); `err` is what
\* SetInfoError::into_inner returns.
Info_set_Overwriting(cell, value) == [cell |-> Some(value), err |-> None]

Info_set(cell, value) == OnceCell_set(cell, value)

\* Info::get
Info_get(cell) == cell

VARIABLES info_cell, info_clones, info_sets, info_got

infovars == <<info_cell, info_clones, info_sets, info_got>>

NotCalled == [info |-> 0, value |-> None, after |-> 0]

InfoInit ==
    /\ info_cell = None
    /\ info_clones = 0
    /\ info_sets = <<>>
    /\ info_got = NotCalled

Infos == 0 .. info_clones

\* Info::clone: the clone shares the cell of the original.
InfoClone ==
    /\ info_clones < MaxInfoClones
    /\ info_clones' = info_clones + 1
    /\ UNCHANGED <<info_cell, info_sets, info_got>>

\* info.set(value) on the metric or one of its clones.
InfoSet(i, value) ==
    /\ Len(info_sets) < MaxInfoSets
    /\ LET r == Info_set(info_cell, value)
       IN  /\ info_cell' = r.cell
           /\ info_sets' = Append(info_sets,
                  [info |-> i, value |-> value, err |-> r.err])
    /\ UNCHANGED <<info_clones, info_got>>

\* info.get() on the metric or one of its clones.
InfoGet(i) ==
    /\ info_got' = [info |-> i, value |-> Info_get(info_cell),
                    after |-> Len(info_sets)]
    /\ UNCHANGED <<info_cell, info_clones, info_sets>>

\* C18: the first Info::set succeeds; every later one, on the metric or on a
\* clone, returns an error that carries the value it was given and leaves the
\* metric as it was; get() returns None before the first set and the first
\* value from then on.
C18_InfoIsSetOnce ==
    /\ \A k \in DOMAIN info_sets :
          info_sets[k].err = (IF k = 1 THEN None ELSE Some(info_sets[k].value))
    /\ info_cell = (IF info_sets = <<>> THEN None ELSE Some(info_sets[1].value))
    /\ info_got # NotCalled =>
          info_got.value = (IF info_got.after = 0 THEN None
                            ELSE Some(info_sets[1].value))

C18_Witness ==
    /\ Len(info_sets) = 3
    /\ info_sets[1].info = 0
    /\ info_sets[2].info = 1
    /\ info_sets[2].value # info_sets[1].value
    /\ info_got.info = 2
    /\ info_got.after = 3

(***************************************************************************)
(* Gauge::inc_guard and GaugeGuard (wrappers.rs).  The gauge is an atomic  *)
(* integer; fetch_add and fetch_sub wrap around at its width, which is     *)
(* GaugeBits here.                                                         *)
(***************************************************************************)
GaugeBits == 3

MaxGuards == 3

GaugeModulus == 2 ^ GaugeBits

GaugeValues == 0 .. (GaugeModulus - 1)

\* The increments of the using_gauge_guard test, 1, and -1 in two's
\* complement.
Increments == {1, 3, 5, GaugeModulus - 1}

\* Atomic::inc_by: fetch_add
inc_by(value, v) == (value + v) % GaugeModulus

\* Atomic::dec_by: fetch_sub
dec_by(value, v) == (value + GaugeModulus - v) % GaugeModulus

\* Gauge::inc_guard: the guard remembers v, the gauge is increased by v.
inc_guard(value, v) == [gauge |-> inc_by(value, v), guard |-> [increment |-> v]]

\* <GaugeGuard as Drop>::drop: the gauge is decreased by the guard's increment.
GaugeGuard_drop_ByOne(value, guard) == dec_by(value, 1)

GaugeGuard_drop(value, guard) == dec_by(value, guard.increment)

VARIABLES gauge, gauge_base, guards, guards_made

gaugevars == <<gauge, gauge_base, guards, guards_made>>

\* A gauge holding some value, with no guard yet.
GaugeInit ==
    /\ gauge_base \in GaugeValues
    /\ gauge = gauge_base
    /\ guards = <<>>
    /\ guards_made = 0

\* let guard = gauge.inc_guard(v)
IncGuard(v) ==
    /\ guards_made < MaxGuards
    /\ LET r == inc_guard(gauge, v)
       IN  /\ gauge' = r.gauge
           /\ guards' = Append(guards, r.guard)
    /\ guards_made' = guards_made + 1
    /\ UNCHANGED gauge_base

\* drop(guard), for any guard that is alive
DropGuard(i) ==
    /\ i \in DOMAIN guards
    /\ gauge' = GaugeGuard_drop(gauge, guards[i])
    /\ guards' = [k \in 1 .. (Len(guards) - 1) |->
                    IF k < i THEN guards[k] ELSE guards[k + 1]]
    /\ UNCHANGED <<gauge_base, guards_made>>

RECURSIVE LiveIncrements(_)
LiveIncrements(k) ==
    IF k = 0 THEN 0 ELSE guards[k].increment + LiveIncrements(k - 1)

OPEN_METRICS_CONTENT_TYPE == "application/openmetrics-text; version=1.0.0; charset=utf-8"

PROMETHEUS_CONTENT_TYPE == "text/plain; version=0.0.4; charset=utf-8"

\* The endpoint push_to_gateway is called with.
Endpoints == {"http://gateway/job/a", "http://gateway/job/b"}

MaxSent == 2

\* The registry the exporters scrape: the `App` group (a counter and an info),
\* with values.
ScrapedRegistry == register_metrics(Registry_empty, "App").registry

\* MetricsExporterInner::render_body when encode succeeds: the text of
\* registry.encode(&mut new_buffer, format).
ScrapedBody(fmt) ==
    Registry_encode(ScrapedRegistry, fmt, [g \in GroupNames |-> "touched"],
                    [g \in GroupNames |-> "unset"]).text

\* A content type that is the same for every format.
content_type_AlwaysOpenMetrics(fmt) == OPEN_METRICS_CONTENT_TYPE

\* MetricsExporterInner::render: the choice of the content type.
content_type(fmt) ==
    IF fmt = "Prometheus" THEN PROMETHEUS_CONTENT_TYPE ELSE OPEN_METRICS_CONTENT_TYPE

\* MetricsExporterInner::render: the response.
Response_builder(fmt, body) ==
    [status |-> "200 OK", content_type |-> content_type(fmt), body |-> body]

\* A request sent with another method.
Request_builder_Post(endpoint, body) ==
    [method |-> "POST", uri |-> endpoint,
     content_type |-> OPEN_METRICS_CONTENT_TYPE, body |-> body]

\* push_to_gateway: the request.
Request_builder(endpoint, body) ==
    [method |-> "PUT", uri |-> endpoint,
     content_type |-> OPEN_METRICS_CONTENT_TYPE, body |-> body]

VARIABLES
    http_endpoint,   \* the endpoint given to push_to_gateway
    http_responses,  \* per format: the responses of the pull exporter of that format
    http_requests    \* per format: the requests of the push exporter of that format

httpvars == <<http_endpoint, http_responses, http_requests>>

HttpInit ==
    /\ http_endpoint \in Endpoints
    /\ http_responses = [fmt \in Formats |-> <<>>]
    /\ http_requests = [fmt \in Formats |-> <<>>]

\* A scrape of the pull exporter configured with fmt is served.
Render(fmt) ==
    /\ Len(http_responses[fmt]) < MaxSent
    /\ http_responses' = [http_responses EXCEPT
            ![fmt] = Append(@, Response_builder(fmt, ScrapedBody(fmt)))]
    /\ UNCHANGED <<http_endpoint, http_requests>>

\* An iteration of push_to_gateway of the exporter configured with fmt
\* builds its request and sends it.
PushRequest(fmt) ==
    /\ Len(http_requests[fmt]) < MaxSent
    /\ http_requests' = [http_requests EXCEPT
            ![fmt] = Append(@, Request_builder(http_endpoint, ScrapedBody(fmt)))]
    /\ UNCHANGED <<http_endpoint, http_responses>>

\* The format a body is written in, told from the text alone: only the strict
\* format reports the counter as `c_total`, and only Format::Prometheus has no
\* `# EOF` line.
FormatOfBody(body) ==
    LET lines == Lines(body)
        total == \E i \in 1..Len(lines) : StartsWith(lines[i], <<"c">> \o TotalSuffix)
        eof == \E i \in 1..Len(lines) : lines[i] = EofLine
    IN  IF total /\ eof THEN "OpenMetrics"
        ELSE IF eof THEN "OpenMetricsForPrometheus"
        ELSE IF ~total THEN "Prometheus" ELSE "None"

\* C21: every request of push_to_gateway is a PUT to the configured endpoint
\* with the strict (OpenMetrics) content type whatever the exporter's Format,
\* and its body is written in the exporter's Format.
C21_PushRequestShape ==
    \A fmt \in Formats : \A i \in 1..Len(http_requests[fmt]) :
        LET request == http_requests[fmt][i]
        IN  /\ request.method = "PUT"
            /\ request.uri = http_endpoint
            /\ request.content_type = OPEN_METRICS_CONTENT_TYPE
            /\ FormatOfBody(request.body) = fmt

C21_Witness ==
    /\ \A fmt \in Formats : http_requests[fmt] # <<>>
    /\ FormatOfBody(http_requests["Prometheus"][1].body) = "Prometheus"
    /\ http_requests["Prometheus"][1].content_type = OPEN_METRICS_CONTENT_TYPE

\* The content types the pull exporter of a format has sent.
SentContentTypes(fmt) ==
    {http_responses[fmt][i].content_type : i \in 1..Len(http_responses[fmt])}

\* C22 as stated: the content type of the pull endpoint for
\* Format::OpenMetrics differs from the one for
\* Format::OpenMetricsForPrometheus and from the one for Format::Prometheus.
C22_AsStated ==
    \A fmt \in Formats \ {"OpenMetrics"} :
        SentContentTypes("OpenMetrics") \cap SentContentTypes(fmt) = {}

\* C22, amended: the content type of the pull endpoint sets
\* Format::Prometheus apart from the other two, which send the same value.
C22_ContentTypeSetsPrometheusApart ==
    /\ \A fmt \in Formats \ {"Prometheus"} :
            SentContentTypes("Prometheus") \cap SentContentTypes(fmt) = {}
    /\ \A fmt \in Formats : Cardinality(SentContentTypes(fmt)) <= 1
    /\ (http_responses["OpenMetrics"] # <<>>
            /\ http_responses["OpenMetricsForPrometheus"] # <<>>) =>
        SentContentTypes("OpenMetrics") = SentContentTypes("OpenMetricsForPrometheus")

C22_Witness ==
    /\ \A fmt \in Formats : http_responses[fmt] # <<>>
    /\ FormatOfBody(http_responses["OpenMetricsForPrometheus"][1].body)
            = "OpenMetricsForPrometheus"

(***************************************************************************)
(* Buckets (buckets.rs).  An f64 is modelled as an integer kept to         *)
(* MantissaBits significant bits: every sum and product is rounded to the  *)
(* nearest such value, ties to the even mantissa, as IEEE 754 arithmetic   *)
(* rounds.  Infinities, NaN and fractions are outside the pools.           *)
(***************************************************************************)
MantissaBits == 4

\* The gap between neighbouring representable values at magnitude x >= 0.
RECURSIVE UlpFrom(_, _)
UlpFrom(x, q) == IF x < q * (2 ^ MantissaBits) THEN q ELSE UlpFrom(x, 2 * q)

\* Rounding of an exact result to the nearest representable value.
RECURSIVE RoundF64(_)
RoundF64(x) ==
    IF x < 0 THEN 0 - RoundF64(0 - x)
    ELSE LET q == UlpFrom(x, 1)
             lo == (x \div q) * q
             r == x - lo
         IN  IF 2 * r < q THEN lo
             ELSE IF 2 * r > q THEN lo + q
             ELSE IF (lo \div q) % 2 = 0 THEN lo ELSE lo + q

\* `a + b` and `a * b` on f64.
f64_add(a, b) == RoundF64(a + b)

f64_mul(a, b) == RoundF64(a * b)

\* The first value that has a gap of 2 to its successor, as 2^53 is for f64.
FirstCoarse == 2 ^ MantissaBits

\* The arguments the constructors are called with.
BucketValues == {<<0, 1, 2, 5>>, <<1, 2, 4, 8>>}

BucketStarts == {0 - 2, 0, 1, FirstCoarse}

BucketEnds == {0, 10, FirstCoarse + 4, 100}

BucketSteps == {0, 1, 3}

BucketFactors == {1, 2, 3}

BucketFactorLists == {<<>>, <<2>>, <<3, 10>>, <<2, 5, 10>>, <<5, 2, 10>>}

Biases == {10, 0 - 3}

MaxYield == 8

MaxCalls == 3

\* The BucketsInner values the constructors accept: Buckets::values,
\* Buckets::linear, Buckets::exponential and Buckets::scaled with their
\* assertions (a call that fails one of them panics and builds nothing).
Increasing(values) == \A i \in 1..(Len(values) - 1) : values[i + 1] > values[i]

Buckets_values == {[kind |-> "Slice", values |-> values] : values \in BucketValues}

Buckets_linear ==
    {inner \in [kind : {"Linear"}, start : BucketStarts, end : BucketEnds,
                step : BucketSteps] :
        inner.end > inner.start /\ inner.step > 0}

Buckets_exponential ==
    {inner \in [kind : {"Exponential"}, start : BucketStarts, end : BucketEnds,
                factor : BucketFactors] :
        inner.start > 0 /\ inner.end > inner.start /\ inner.factor > 1}

Buckets_scaled ==
    {inner \in [kind : {"Scaled"}, start : BucketStarts, end : BucketEnds,
                factors : BucketFactorLists] :
        /\ inner.start > 0
        /\ inner.end > inner.start
        /\ inner.factors # <<>>
        /\ inner.factors[1] > 1
        /\ Increasing(inner.factors)}

\* Buckets::new
Buckets_new(inner) == [inner |-> inner, bias |-> 0, mirrored |-> FALSE]

\* BucketsInner::smallest_value
smallest_value(inner) ==
    IF inner.kind = "Slice" THEN inner.values[1] ELSE inner.start

\* Buckets::mirrored (its assertion is the guard of the Mirrored step).
Buckets_mirrored(b) == [b EXCEPT !.mirrored = TRUE]

\* A bias that adds up over the calls.
Buckets_biased_Accumulating(b, bias) == [b EXCEPT !.bias = f64_add(@, bias)]

\* Buckets::biased
Buckets_biased(b, bias) == [b EXCEPT !.bias = bias]

\* The start of the octave-th octave of scaled buckets:
\* iter::successors(Some(start), |value| Some(value * greatest_factor)).
RECURSIVE OctaveStart(_, _, _)
OctaveStart(start, greatest_factor, octave) ==
    IF octave = 0 THEN start
    ELSE f64_mul(OctaveStart(start, greatest_factor, octave - 1), greatest_factor)

\* BucketsInner::iter, one call of next() on it after `yielded` came out:
\* <<value>>, or <<>> at the end.
BucketsInner_next(inner, yielded) ==
    LET k == Len(yielded)
        upTo(value) == IF value <= inner.end THEN <<value>> ELSE <<>>
    IN  CASE inner.kind = "Slice" ->
                IF k < Len(inner.values) THEN <<inner.values[k + 1]>> ELSE <<>>
          [] inner.kind = "Linear" ->
                IF k = 0 THEN <<inner.start>>
                ELSE upTo(f64_add(yielded[k], inner.step))
          [] inner.kind = "Exponential" ->
                IF k = 0 THEN <<inner.start>>
                ELSE upTo(f64_mul(yielded[k], inner.factor))
          [] inner.kind = "Scaled" ->
                LET n == Len(inner.factors)
                    greatest_factor == inner.factors[n]
                    start == OctaveStart(inner.start, greatest_factor, k \div n)
                    factor == IF k % n = 0 THEN 1 ELSE inner.factors[k % n]
                IN  upTo(f64_mul(start, factor))

\* collected_base.into_iter().rev().filter_map(|value| (value > 0.0).then_some(-value))
RECURSIVE MirroredPart(_, _)
MirroredPart(base, i) ==
    IF i = 0 THEN <<>>
    ELSE (IF base[i] > 0 THEN <<0 - base[i]>> ELSE <<>>) \o MirroredPart(base, i - 1)

\* Buckets::iter, collected, given what self.inner.iter() yields.
Buckets_iter(b, base) ==
    LET chained == IF b.mirrored THEN MirroredPart(base, Len(base)) \o base ELSE base
    IN  [i \in 1..Len(chained) |-> f64_add(chained[i], b.bias)]

VARIABLES
    buckets,     \* the Buckets value: [inner, bias, mirrored]
    bcalls,      \* history: the builder calls made on it, [call, bias]
    yielded,     \* what buckets.inner.iter() has yielded so far
    ended,       \* whether that iterator has returned None
    boundaries   \* buckets.iter().collect(): [done, values]

bucketvars == <<buckets, bcalls, yielded, ended, boundaries>>

NotCollected == [done |-> FALSE, values |-> <<>>]

BucketsInit ==
    /\ \E inner \in Buckets_values \cup Buckets_linear
                    \cup Buckets_exponential \cup Buckets_scaled :
            buckets = Buckets_new(inner)
    /\ bcalls = <<>>
    /\ yielded = <<>>
    /\ ended = FALSE
    /\ boundaries = NotCollected

\* buckets = buckets.mirrored()
Mirrored ==
    /\ Len(bcalls) < MaxCalls
    /\ boundaries = NotCollected
    /\ smallest_value(buckets.inner) >= 0
    /\ buckets' = Buckets_mirrored(buckets)
    /\ bcalls' = Append(bcalls, [call |-> "mirrored", bias |-> 0])
    /\ UNCHANGED <<yielded, ended, boundaries>>

\* buckets = buckets.biased(bias)
Biased(bias) ==
    /\ Len(bcalls) < MaxCalls
    /\ boundaries = NotCollected
    /\ buckets' = Buckets_biased(buckets, bias)
    /\ bcalls' = Append(bcalls, [call |-> "biased", bias |-> bias])
    /\ UNCHANGED <<yielded, ended, boundaries>>

\* One next() on buckets.inner.iter().
Yield ==
    /\ ~ended
    /\ Len(yielded) < MaxYield
    /\ LET item == BucketsInner_next(buckets.inner, yielded)
       IN  /\ yielded' = yielded \o item
           /\ ended' = (item = <<>>)
    /\ UNCHANGED <<buckets, bcalls, boundaries>>

\* buckets.iter().collect(): returns once the inner iterator has ended.
Collect ==
    /\ ended
    /\ boundaries = NotCollected
    /\ boundaries' = [done |-> TRUE, values |-> Buckets_iter(buckets, yielded)]
    /\ UNCHANGED <<buckets, bcalls, yielded, ended>>

\* The k-th value (from 0) of the documented generation rule, each value
\* computed in f64 from the one before it.
RECURSIVE RuleValue(_, _)
RuleValue(inner, k) ==
    CASE inner.kind = "Linear" ->
            IF k = 0 THEN inner.start
            ELSE f64_add(RuleValue(inner, k - 1), inner.step)
      [] inner.kind = "Exponential" ->
            IF k = 0 THEN inner.start
            ELSE f64_mul(RuleValue(inner, k - 1), inner.factor)
      [] inner.kind = "Scaled" ->
            LET n == Len(inner.factors)
                multiplier == IF k % n = 0 THEN 1 ELSE inner.factors[k % n]
            IN  f64_mul(OctaveStart(inner.start, inner.factors[n], k \div n),
                        multiplier)

\* C23 as stated: linear, exponential and scaled buckets yield the values of
\* their generation rule, exactly those that are <= end, in strictly
\* increasing order.
C23_AsStated ==
    buckets.inner.kind # "Slice" =>
        /\ \A i \in 1..Len(yielded) :
                /\ yielded[i] = RuleValue(buckets.inner, i - 1)
                /\ yielded[i] <= buckets.inner.end
        /\ ended => RuleValue(buckets.inner, Len(yielded)) > buckets.inner.end
        /\ Increasing(yielded)

\* What holds of every specification: the values follow the rule and stay
\* within end, but they may repeat instead of increasing.
BucketsFollowTheRule ==
    buckets.inner.kind # "Slice" =>
        /\ \A i \in 1..Len(yielded) :
                /\ yielded[i] = RuleValue(buckets.inner, i - 1)
                /\ yielded[i] <= buckets.inner.end
        /\ ended => RuleValue(buckets.inner, Len(yielded)) > buckets.inner.end
        /\ \A i \in 1..(Len(yielded) - 1) : yielded[i + 1] >= yielded[i]

\* The builder calls as the claim reads them: mirrored if mirrored() was
\* called at all, biased by the argument of the last biased() call.
CalledMirrored == \E i \in 1..Len(bcalls) : bcalls[i].call = "mirrored"

RECURSIVE LastBias(_)
LastBias(i) ==
    IF i = 0 THEN 0
    ELSE IF bcalls[i].call = "biased" THEN bcalls[i].bias ELSE LastBias(i - 1)

ExpectedBoundaries ==
    LET positive == SelectSeq(yielded, LAMBDA value : value > 0)
        n == Len(positive)
        reflected == [i \in 1..(n + Len(yielded)) |->
                        IF i <= n THEN 0 - positive[n + 1 - i] ELSE yielded[i - n]]
        chained == IF CalledMirrored THEN reflected ELSE yielded
    IN  [i \in 1..Len(chained) |-> f64_add(chained[i], LastBias(Len(bcalls)))]

\* C24: whatever the order of the builder calls, the collected boundaries are
\* the negated strictly positive boundaries in descending order (if
\* mirrored() was called), then the original sequence, each with the bias of
\* the last biased() call added.
C24_MirrorThenBias ==
    boundaries.done => boundaries.values = ExpectedBoundaries

C24_Witness ==
    /\ boundaries.done
    /\ bcalls = <<[call |-> "biased", bias |-> 10], [call |-> "mirrored", bias |-> 0],
                  [call |-> "biased", bias |-> 0 - 3]>>
    /\ buckets.inner = [kind |-> "Slice", values |-> <<0, 1, 2, 5>>]
    /\ boundaries.values = <<0 - 8, 0 - 5, 0 - 4, 0 - 3, 0 - 2, 0 - 1, 2>>

(***************************************************************************)
(* compare_f64 (buckets.rs) on the bits of its operands.  The layout is    *)
(* that of f64 (sign, exponent, fraction), with ExponentBits and           *)
(* FractionBits in place of 11 and 52.                                     *)
(***************************************************************************)
FractionBits == 2

ExponentBits == 2

FRACTION_MASK == (2 ^ FractionBits) - 1

EXPONENT_MASK == ((2 ^ ExponentBits) - 1) * (2 ^ FractionBits)

SIGN_MASK == 2 ^ (FractionBits + ExponentBits)

\* Every bit pattern of an operand.
F64Bits == 0..(2 * SIGN_MASK - 1)

\* `a & b` on u64
RECURSIVE BitAnd(_, _)
BitAnd(a, b) ==
    IF a = 0 \/ b = 0 THEN 0
    ELSE (a % 2) * (b % 2) + 2 * BitAnd(a \div 2, b \div 2)

\* DecomposedF64::new
DecomposedF64_new(bits) ==
    [sign_bit |-> BitAnd(bits, SIGN_MASK),
     exponent_bits |-> BitAnd(bits, EXPONENT_MASK),
     fraction_bits |-> BitAnd(bits, FRACTION_MASK)]

\* DecomposedF64::is_zero, is_subnormal, is_nan
is_zero(d) == d.exponent_bits = 0 /\ d.fraction_bits = 0

is_subnormal_Never(d) == FALSE

is_subnormal(d) == d.exponent_bits = 0 /\ d.fraction_bits # 0

is_nan(d) == d.exponent_bits = EXPONENT_MASK /\ d.fraction_bits # 0

\* compare_u64
compare_u64(lhs, rhs) ==
    IF lhs < rhs THEN "Less" ELSE IF lhs > rhs THEN "Greater" ELSE "Equal"

\* cmp::Ordering::reverse
reverse(ordering) ==
    CASE ordering = "Less" -> "Greater"
      [] ordering = "Greater" -> "Less"
      [] OTHER -> ordering

\* compare_f64, given the bits of its operands: "None" or Some(ordering).
compare_f64(lhs_bits, rhs_bits) ==
    LET lhs == DecomposedF64_new(lhs_bits)
        rhs == DecomposedF64_new(rhs_bits)
        sign_ordering == reverse(compare_u64(lhs.sign_bit, rhs.sign_bit))
        exponent_ordering ==
            IF lhs.sign_bit # 0
            THEN reverse(compare_u64(lhs.exponent_bits, rhs.exponent_bits))
            ELSE compare_u64(lhs.exponent_bits, rhs.exponent_bits)
        fraction_ordering ==
            IF lhs.sign_bit # 0
            THEN reverse(compare_u64(lhs.fraction_bits, rhs.fraction_bits))
            ELSE compare_u64(lhs.fraction_bits, rhs.fraction_bits)
    IN  IF is_nan(lhs) \/ is_nan(rhs) \/ is_subnormal(lhs) \/ is_subnormal(rhs)
        THEN "None"
        ELSE IF is_zero(lhs) /\ is_zero(rhs) THEN "Equal"
        ELSE IF sign_ordering # "Equal" THEN sign_ordering
        ELSE IF exponent_ordering # "Equal" THEN exponent_ordering
        ELSE fraction_ordering

VARIABLES
    lhs_bits,    \* the bits of the first operand
    rhs_bits,    \* the bits of the second operand
    compared     \* what compare_f64 returned, or "NotCalled"

f64vars == <<lhs_bits, rhs_bits, compared>>

F64Init ==
    /\ lhs_bits \in F64Bits
    /\ rhs_bits \in F64Bits
    /\ compared = "NotCalled"

\* compare_f64(lhs, rhs)
CompareF64 ==
    /\ compared = "NotCalled"
    /\ compared' = compare_f64(lhs_bits, rhs_bits)
    /\ UNCHANGED <<lhs_bits, rhs_bits>>

\* The fields of an operand as IEEE 754 reads them, and its class.
SignOf(bits) == bits \div SIGN_MASK

ExponentOf(bits) == (bits \div (2 ^ FractionBits)) % (2 ^ ExponentBits)

FractionOf(bits) == bits % (2 ^ FractionBits)

IsNaN(bits) == ExponentOf(bits) = (2 ^ ExponentBits) - 1 /\ FractionOf(bits) # 0

IsSubnormal(bits) == ExponentOf(bits) = 0 /\ FractionOf(bits) # 0

IsZero(bits) == ExponentOf(bits) = 0 /\ FractionOf(bits) = 0

\* The value of an operand that is not NaN, in units of the smallest
\* subnormal; an infinity counts as the power of two above every normal value.
ValueOf(bits) ==
    LET magnitude ==
            IF ExponentOf(bits) = 0 THEN FractionOf(bits)
            ELSE ((2 ^ FractionBits) + FractionOf(bits)) * (2 ^ (ExponentOf(bits) - 1))
    IN  IF SignOf(bits) = 1 THEN 0 - magnitude ELSE magnitude

\* The native comparison, f64::partial_cmp.
NativeOrdering(lhs, rhs) ==
    IF IsNaN(lhs) \/ IsNaN(rhs) THEN "None"
    ELSE IF ValueOf(lhs) < ValueOf(rhs) THEN "Less"
    ELSE IF ValueOf(lhs) > ValueOf(rhs) THEN "Greater" ELSE "Equal"

\* The ordering the claim spells out: by sign, then by exponent, then by
\* fraction, the last two the other way round for negative values.
BySignExponentFraction(lhs, rhs) ==
    LET adjusted(ordering) == IF SignOf(lhs) = 1 THEN reverse(ordering) ELSE ordering
    IN  IF SignOf(lhs) # SignOf(rhs)
        THEN (IF SignOf(lhs) = 1 THEN "Less" ELSE "Greater")
        ELSE IF ExponentOf(lhs) # ExponentOf(rhs)
        THEN adjusted(compare_u64(ExponentOf(lhs), ExponentOf(rhs)))
        ELSE adjusted(compare_u64(FractionOf(lhs), FractionOf(rhs)))

\* C25: compare_f64 returns None when an operand is NaN or subnormal, Equal
\* for two zeros of any signs, and otherwise the ordering of the native
\* comparison, which is the one decided by sign, then sign-adjusted exponent
\* bits, then sign-adjusted fraction bits.
C25_CompareF64 ==
    compared # "NotCalled" =>
        IF IsNaN(lhs_bits) \/ IsNaN(rhs_bits)
            \/ IsSubnormal(lhs_bits) \/ IsSubnormal(rhs_bits)
        THEN compared = "None"
        ELSE IF IsZero(lhs_bits) /\ IsZero(rhs_bits)
        THEN compared = "Equal"
        ELSE /\ compared = NativeOrdering(lhs_bits, rhs_bits)
             /\ compared = BySignExponentFraction(lhs_bits, rhs_bits)

\* A negative normal value is compared with a larger negative value of the
\* same exponent: the fraction decides, the other way round.
C25_Witness ==
    /\ compared = "Less"
    /\ SignOf(lhs_bits) = 1 /\ SignOf(rhs_bits) = 1
    /\ ExponentOf(lhs_bits) = ExponentOf(rhs_bits)
    /\ ExponentOf(lhs_bits) = 1
    /\ FractionOf(lhs_bits) > FractionOf(rhs_bits)

(***************************************************************************)
(* Concurrent scrapes of the pull server on a runtime with one async       *)
(* worker thread (the least a runtime has).  The accept loop and the       *)
(* service function of every connection are tasks of that worker; a task   *)
(* holds the worker only while it runs, not while it awaits.  render_body  *)
(* hands Registry::encode to tokio::task::spawn_blocking and awaits it.    *)
(***************************************************************************)
Scrapers == {"s1", "s2", "s3"}

Free == "free"

\* A render_body that calls registry.encode on the worker itself: the worker
\* is held by the task until encode returns.
spawn_blocking_OnTheWorker(worker, task) == task

\* tokio::task::spawn_blocking(closure).await in render_body: the closure
\* runs on a thread of the blocking pool; the result is who holds the async
\* worker while the closure runs.
spawn_blocking(worker, task) == worker

VARIABLES
    sc_conn,     \* per connection: new, accepted, encoding, blocked, encoded,
                 \*   responded or panicked
    sc_worker,   \* Free, or the connection whose task holds the async worker
    sc_during    \* per connection: the encodes that were running when it was accepted

scrapevars == <<sc_conn, sc_worker, sc_during>>

ScrapeInit ==
    /\ sc_conn = [c \in Scrapers |-> "new"]
    /\ sc_worker = Free
    /\ sc_during = [c \in Scrapers |-> {}]

Running == {c \in Scrapers : sc_conn[c] \in {"encoding", "blocked"}}

\* The accept loop accepts a connection and its request is read.
ScrapeAccept(c) ==
    /\ sc_worker = Free
    /\ sc_conn[c] = "new"
    /\ sc_conn' = [sc_conn EXCEPT ![c] = "accepted"]
    /\ sc_during' = [sc_during EXCEPT ![c] = Running]
    /\ UNCHANGED sc_worker

\* The service function runs render and render_body up to the await of
\* the spawned encode.
StartEncode(c) ==
    /\ sc_worker = Free
    /\ sc_conn[c] = "accepted"
    /\ sc_conn' = [sc_conn EXCEPT ![c] = "encoding"]
    /\ sc_worker' = spawn_blocking(sc_worker, c)
    /\ UNCHANGED sc_during

\* A collector callback of the encode blocks (on I/O, on a lock), and
\* later returns.
CallbackBlocks(c) ==
    /\ sc_conn[c] = "encoding"
    /\ sc_conn' = [sc_conn EXCEPT ![c] = "blocked"]
    /\ UNCHANGED <<sc_worker, sc_during>>

CallbackReturns(c) ==
    /\ sc_conn[c] = "blocked"
    /\ sc_conn' = [sc_conn EXCEPT ![c] = "encoding"]
    /\ UNCHANGED <<sc_worker, sc_during>>

\* Registry::encode returns and the closure ends, with the buffer or with the
\* panic of its unwrap.
EncodeReturns(c, encoded) ==
    /\ sc_conn[c] = "encoding"
    /\ sc_conn' = [sc_conn EXCEPT ![c] =
            IF render_body(encoded) = "Panic" THEN "panicked" ELSE "encoded"]
    /\ sc_worker' = IF sc_worker = c THEN Free ELSE sc_worker
    /\ UNCHANGED sc_during

\* The service function resumes after the await and returns the response.
SendResponse(c) ==
    /\ sc_worker = Free
    /\ sc_conn[c] = "encoded"
    /\ sc_conn' = [sc_conn EXCEPT ![c] = "responded"]
    /\ UNCHANGED <<sc_worker, sc_during>>

MaxTranslated == 3

\* The lines of a document: TYPE lines of every kind for the name `a`, comment
\* lines, value lines with and without a suffix for the names `a` and `b`,
\* and the terminator.
TypeLines ==
    {[kind |-> "type", name |-> <<"a">>, word |-> word, rest |-> <<>>] :
        word \in {CounterWord, InfoWord, GaugeWord, HistogramWord, <<"u">>}}

CommentLines ==
    {[kind |-> "comment", name |-> prefix, word |-> <<>>, rest |-> <<"a", " ", "h">>] :
        prefix \in {HelpPrefix, UnitPrefix, <<"#", " ">>}}

ValueLines ==
    {[kind |-> "value", name |-> name, word |-> suffix, rest |-> <<" ", "3">>] :
        name \in {<<"a">>, <<"b">>}, suffix \in {TotalSuffix, InfoSuffix}}
    \cup {[kind |-> "value", name |-> <<"a">>, word |-> <<>>, rest |-> <<"{", "v", "}", " ", "1">>]}

EofLines == {[kind |-> "eof", name |-> <<>>, word |-> <<>>, rest |-> <<>>]}

\* The text of a line.
LineText(l) ==
    CASE l.kind = "type" -> TypePrefix \o l.name \o <<" ">> \o l.word
      [] l.kind = "comment" -> l.name \o l.rest
      [] l.kind = "value" -> l.name \o l.word \o l.rest
      [] l.kind = "eof" -> EofLine

VARIABLES
    tr_format,   \* the format the wrapper is set up for
    tr_lines,    \* the lines text::encode writes
    tr_result    \* the wrapper after write_str and flush, or NotTranslated

trvars == <<tr_format, tr_lines, tr_result>>

NotTranslated == [PrometheusWrapper_new EXCEPT !.last_line = <<"?">>]

TranslateInit ==
    /\ tr_format \in PrometheusFormats
    /\ tr_lines \in SeqsUpTo(TypeLines \cup CommentLines \cup ValueLines \cup EofLines,
                             MaxTranslated)
    /\ tr_result = NotTranslated

\* Registry::encode: the document is written to the wrapper, which is flushed.
Translate ==
    /\ tr_result = NotTranslated
    /\ tr_result' = OneShot(tr_format,
            TextOf([i \in 1..Len(tr_lines) |-> LineText(tr_lines[i])], TRUE))
    /\ UNCHANGED <<tr_format, tr_lines>>

\* The last TYPE line before the i-th line (0: none).
TypeLineBefore(i) ==
    LET T == {j \in 1..(i - 1) : tr_lines[j].kind = "type"}
    IN  IF T = {} THEN 0 ELSE CHOOSE j \in T : \A k \in T : k <= j

\* The lines no rule of the translator names: comments other than TYPE and
\* the terminator, and value lines that are not the `N_total` of a declared
\* counter N or the `N_info` of a declared info N.
NamedByNoRule(i) ==
    LET l == tr_lines[i]
        t == TypeLineBefore(i)
    IN  \/ l.kind = "comment"
        \/ /\ l.kind = "value"
           /\ \/ t = 0
              \/ tr_lines[t].word \notin {CounterWord, InfoWord}
              \/ tr_lines[t].word = CounterWord
                    /\ ~(l.word = TotalSuffix /\ l.name = tr_lines[t].name)
              \/ tr_lines[t].word = InfoWord
                    /\ ~(l.word = InfoSuffix /\ l.name = tr_lines[t].name)

\* Where the i-th line lands in the output: only terminators are dropped.
LandsAt(i) ==
    i - Cardinality({j \in 1..(i - 1) :
                        tr_lines[j].kind = "eof" /\ tr_format = "Prometheus"})

\* C27: every comment line other than TYPE and `# EOF`, every value line after
\* a TYPE of gauge, histogram or unknown kind or before any TYPE, and every
\* counter or info value line that is not the declared name plus its suffix,
\* comes out as it went in, followed by one newline.
C27_OtherLinesUntouched ==
    tr_result # NotTranslated =>
        LET written == Lines(tr_result.writer)
        IN  /\ ~tr_result.err
            /\ tr_result.writer = Concat([i \in 1..Len(written) |-> written[i] \o NL])
            /\ \A i \in 1..Len(tr_lines) :
                    NamedByNoRule(i) =>
                        /\ LandsAt(i) <= Len(written)
                        /\ written[LandsAt(i)] = LineText(tr_lines[i])

\* `a_total 3` after `# TYPE a histogram`, and `b_total 3` after
\* `# TYPE a counter`, have been translated.
C27_Witness ==
    /\ tr_result # NotTranslated
    /\ Len(tr_lines) = 2
    /\ tr_lines[1].kind = "type" /\ tr_lines[1].word \in {HistogramWord, CounterWord}
    /\ tr_lines[2].kind = "value" /\ tr_lines[2].word = TotalSuffix
    /\ NamedByNoRule(2)
    /\ tr_result.writer = LineText(tr_lines[1]) \o NL \o LineText(tr_lines[2]) \o NL

(***************************************************************************)
(* Encoding a Family while other threads index it.  encode takes the       *)
(* snapshot of the keys in one call (keys_cloned) and then looks every key *)
(* up in a call of its own (get(labels).unwrap()); the map's lock is free  *)
(* between the calls, so insertions come in between.                       *)
(***************************************************************************)
\* The label combinations the threads use.
SnapshotLabels == 1..(NumLabels + 1)

VARIABLES
    sn_entries,  \* FamilyInner.map: sequence of [key, metric]
    sn_keys,     \* the snapshot of the encode in progress
    sn_pc,       \* "idle", "walking" (inside the loop), "ok" or "panicked"
    sn_encoded,  \* what the encode has passed to encode_family: [key, metric]
    sn_late      \* history: the keys inserted since the snapshot was taken

snapvars == <<sn_entries, sn_keys, sn_pc, sn_encoded, sn_late>>

SnapshotInit ==
    /\ sn_entries = <<>>
    /\ sn_keys = <<>>
    /\ sn_pc = "idle"
    /\ sn_encoded = <<>>
    /\ sn_late = {}

\* Another thread indexes the family: family[&l], i.e. get_or_create.
InsertDuring(l) ==
    /\ sn_pc # "panicked"
    /\ sn_entries' = MapInsertWith(sn_entries, l, Len(sn_entries) + 1).entries
    /\ sn_late' = IF sn_pc = "walking" /\ MapGet(sn_entries, l) = 0
                  THEN sn_late \cup {l} ELSE sn_late
    /\ UNCHANGED <<sn_keys, sn_pc, sn_encoded>>

\* encode / encode_grouped / to_entries: `self.inner.map.keys_cloned()`
TakeKeys ==
    /\ sn_pc \in {"idle", "ok"}
    /\ sn_keys' = KeysCloned(sn_entries)
    /\ sn_pc' = "walking"
    /\ sn_encoded' = <<>>
    /\ sn_late' = {}
    /\ UNCHANGED sn_entries

\* One turn of the loop: `self.inner.map.get(labels).unwrap()` and the encoding
\* of the metric; the loop ends after the last key.
LookupKey ==
    /\ sn_pc = "walking"
    /\ IF Len(sn_encoded) = Len(sn_keys)
       THEN /\ sn_pc' = "ok"
            /\ UNCHANGED sn_encoded
       ELSE LET key == sn_keys[Len(sn_encoded) + 1]
                metric == MapGet(sn_entries, key)
            IN  IF metric = 0
                THEN /\ sn_pc' = "panicked"
                     /\ UNCHANGED sn_encoded
                ELSE /\ sn_encoded' = Append(sn_encoded, [key |-> key, metric |-> metric])
                     /\ UNCHANGED sn_pc
    /\ UNCHANGED <<sn_entries, sn_keys, sn_late>>

\* C28: an encode that runs while other threads insert never panics; every key
\* of its snapshot resolves to its metric; when it returns, each snapshotted
\* combination has been encoded exactly once, and the combinations inserted
\* after the snapshot are not in it.
C28_EncodeDuringInserts ==
    /\ sn_pc # "panicked"
    /\ \A i \in 1..Len(sn_keys) : MapGet(sn_entries, sn_keys[i]) # 0
    /\ \A i \in 1..Len(sn_encoded) :
            /\ sn_encoded[i].key = sn_keys[i]
            /\ sn_encoded[i].metric = MapGet(sn_entries, sn_keys[i])
    /\ sn_pc = "ok" =>
            /\ \A l \in SnapshotLabels :
                    Cardinality({i \in 1..Len(sn_encoded) : sn_encoded[i].key = l})
                        = (IF \E i \in 1..Len(sn_keys) : sn_keys[i] = l THEN 1 ELSE 0)
            /\ \A l \in sn_late : \A i \in 1..Len(sn_encoded) : sn_encoded[i].key # l

\* An encode has returned that had a combination inserted between its snapshot
\* and its last lookup.
C28_Witness ==
    /\ sn_pc = "ok"
    /\ sn_encoded # <<>>
    /\ sn_late # {}

(***************************************************************************)
(* Metric storage under scrapes: a lazily registered Global, a             *)
(* MetricsFamily and a Family, all registered in one Registry that is      *)
(* encoded any number of times while the application uses them             *)
(* (metrics.rs, wrappers.rs, collector.rs).                                *)
(***************************************************************************)
MaxEncodes == 2

\* Lazy::new(f): the cell is empty; `init` is what f returns when it is run.
Lazy_new(init) == [init |-> init, cell |-> None]

\* Lazy::force, which Deref calls: the first use runs f and stores its value.
Lazy_force(lazy) ==
    IF lazy.cell = None THEN [lazy EXCEPT !.cell = Some(lazy.init)] ELSE lazy

\* A get that initializes the cell, as dereferencing the Lazy does.
Lazy_get_Forcing(lazy) ==
    [lazy |-> Lazy_force(lazy), value |-> Lazy_force(lazy).cell]

\* Lazy::get(&self.0): Some(&value) if the cell is initialized, None otherwise;
\* f is not run.
Lazy_get(lazy) == [lazy |-> lazy, value |-> lazy.cell]

\* FamilyInner::get_or_create; every built metric is the same fresh counter.
get_or_create(entries, labels) ==
    IF MapGet(entries, labels) # 0 THEN entries
    ELSE MapInsertWith(entries, labels, 1).entries

\* <MetricsFamily as Metrics>::visit_metrics: the family is visited only if
\* its Lazy is initialized; then every entry of to_entries() is visited.
MetricsFamily_visit_metrics(lazy) ==
    LET got == Lazy_get(lazy)
    IN  [lazy |-> got.lazy,
         visited |-> IF got.value = None THEN <<>> ELSE to_entries(got.value[1])]

\* The collector of a lazily registered Global: the group is visited only if
\* its Lazy is initialized.
LazyGlobalCollector_collect(lazy) ==
    LET got == Lazy_get(lazy)
    IN  [lazy |-> got.lazy,
         visited |-> IF got.value = None THEN <<>> ELSE got.value]

\* <Family as EncodeMetric>::encode: one series per key of keys_cloned(), each
\* looked up with get.
Family_encode(entries) ==
    LET keys == KeysCloned(entries)
    IN  [i \in 1..Len(keys) |-> [key |-> keys[i], metric |-> MapGet(entries, keys[i])]]

\* What a collector's hook does when called: nothing to the metrics ("reads"),
\* or it indexes the Family with some labels ("indexes").
StorageHooks == {"unset", "reads", "indexes"}

\* <&Collector as CollectorTrait>::collect: the hook, if set, is called.
HookCalled(hook, entries) ==
    IF hook = "indexes" THEN get_or_create(entries, 1) ELSE entries

VARIABLES
    st_global,   \* the Lazy of a Global registered lazily; its value is a counter
    st_family,   \* the Lazy of a MetricsFamily; its value is the FamilyInner's map
    st_plain,    \* the map of a Family
    st_hook,     \* what the registered Collector's hook does (StorageHooks)
    st_encodes,  \* the number of Registry::encode calls made
    st_visited   \* what the last encode visited

storevars == <<st_global, st_family, st_plain, st_hook, st_encodes, st_visited>>

NothingVisited == [global |-> <<>>, family |-> <<>>, plain |-> <<>>]

StorageInit ==
    /\ st_global = Lazy_new(0)
    /\ st_family = Lazy_new(<<>>)
    /\ st_plain = <<>>
    /\ st_hook = "unset"
    /\ st_encodes = 0
    /\ st_visited = NothingVisited

\* LAZY_METRICS.counter.inc(): the Global is dereferenced, then the counter
\* incremented (once here).
TouchGlobal ==
    /\ Lazy_force(st_global).cell = Some(0)
    /\ st_global' = [Lazy_force(st_global) EXCEPT !.cell = Some(1)]
    /\ UNCHANGED <<st_family, st_plain, st_hook, st_encodes, st_visited>>

\* METRICS_FAMILY[&labels]: the Lazy is dereferenced, then get_or_create.
IndexMetricsFamily(labels) ==
    /\ MapGet(Lazy_force(st_family).cell[1], labels) = 0
    /\ st_family' = [Lazy_force(st_family) EXCEPT
                        !.cell = Some(get_or_create(@[1], labels))]
    /\ UNCHANGED <<st_global, st_plain, st_hook, st_encodes, st_visited>>

\* family[&labels]
IndexFamily(labels) ==
    /\ MapGet(st_plain, labels) = 0
    /\ st_plain' = get_or_create(st_plain, labels)
    /\ UNCHANGED <<st_global, st_family, st_hook, st_encodes, st_visited>>

\* COLLECTOR.before_scrape(hook)
SetHook(hook) ==
    /\ st_hook = "unset"
    /\ hook # "unset"
    /\ st_hook' = hook
    /\ UNCHANGED <<st_global, st_family, st_plain, st_encodes, st_visited>>

\* registry.encode(..): the registered metrics (the Family among them) are
\* encoded, then the collectors are asked: the lazy Global's, the
\* MetricsFamily's, and the Collector with its hook.
EncodeStorage ==
    LET plain == Family_encode(st_plain)
        global == LazyGlobalCollector_collect(st_global)
        family == MetricsFamily_visit_metrics(st_family)
    IN  /\ st_encodes < MaxEncodes
        /\ st_global' = global.lazy
        /\ st_family' = family.lazy
        /\ st_plain' = HookCalled(st_hook, st_plain)
        /\ st_visited' = [global |-> global.visited, family |-> family.visited,
                          plain |-> plain]
        /\ st_encodes' = st_encodes + 1
        /\ UNCHANGED st_hook

\* C29: an encode initializes no Lazy (of a lazily registered group or of a
\* MetricsFamily) and adds no entry to a MetricsFamily or a Family: after the
\* call each holds what it held before, except for what the Collector's hook
\* did when it was called.
C29_EncodeReadsOnly ==
    [][st_encodes' # st_encodes =>
            /\ st_global' = st_global
            /\ st_family' = st_family
            /\ st_plain' = HookCalled(st_hook, st_plain)
            /\ (st_hook # "indexes" => st_plain' = st_plain)]_storevars

\* Two encodes were made, the second while the Global and the MetricsFamily were
\* still uninitialized and the Family held an entry; it visited that entry
\* and nothing of the other two.
C29_Witness ==
    /\ st_encodes = 2
    /\ st_global.cell = None
    /\ st_family.cell = None
    /\ st_hook = "reads"
    /\ Len(st_plain) = 1
    /\ st_visited = [global |-> <<>>, family |-> <<>>,
                     plain |-> <<[key |-> st_plain[1].key, metric |-> 1]>>]

(***************************************************************************)
(* The index of registered descriptors as Registry::descriptors() shows it *)
(* (registry.rs).                                                          *)
(***************************************************************************)

\* RegisteredDescriptors::groups
groups(descriptors) == descriptors.groups

\* RegisteredDescriptors::metric: the descriptor stored under the full name.
metric(descriptors, name) ==
    IF name \in DOMAIN descriptors.metrics_by_name
    THEN Some(descriptors.metrics_by_name[name]) ELSE None

\* RegisteredDescriptors::metric_count: the sum of the groups' numbers of
\* metrics.
RECURSIVE SumOfMetrics(_, _)
SumOfMetrics(listed, i) ==
    IF i > Len(listed) THEN 0
    ELSE Len(Group(listed[i]).metrics) + SumOfMetrics(listed, i + 1)

metric_count(descriptors) == SumOfMetrics(groups(descriptors), 1)

\* Every full name a group of the application defines, and one that none does.
FullNames ==
    {full_name(Group(g).metrics[i]) :
        <<g, i>> \in {p \in GroupNames \X (1..2) : p[2] <= Len(Group(p[1]).metrics)}}
    \cup {<<"z">>}

\* The full names for which metric(name) returns a descriptor.
DescribedNames == {n \in FullNames : metric(registry.descriptors, n) # None}

\* The groups registered so far whose metrics do not exist yet: a lazily
\* registered group that is not initialized, a collector without its hook.
RegisteredUnbuilt ==
    {regs[k].group : k \in {j \in 1..Len(regs) :
        \/ regs[j].mode = "lazy" /\ globals[regs[j].group] = "uninit"
        \/ regs[j].mode = "collector" /\ regs[j].group \notin hooks}}

\* C30: as long as no registration call has panicked, metric_count() is the
\* number of full names for which metric(name) returns a descriptor, each such
\* descriptor is that of a field of a group listed in groups() and is stored
\* under that field's full name, and every registered group is listed, the
\* lazily registered ones and the collectors too, initialized or not.
C30_DescriptorIndexConsistent ==
    panicked = NoPanic =>
        LET descriptors == registry.descriptors
        IN  /\ metric_count(descriptors) = Cardinality(DescribedNames)
            /\ DOMAIN descriptors.metrics_by_name \subseteq FullNames
            /\ \A n \in DescribedNames :
                LET d == metric(descriptors, n)[1]
                IN  /\ \E i \in 1..Len(groups(descriptors)) :
                            groups(descriptors)[i] = d.group
                    /\ d.field \in 1..Len(Group(d.group).metrics)
                    /\ full_name(Group(d.group).metrics[d.field]) = n
            /\ \A k \in 1..Len(regs) :
                /\ \E i \in 1..Len(groups(descriptors)) :
                        groups(descriptors)[i] = regs[k].group
                /\ \A i \in 1..Len(Group(regs[k].group).metrics) :
                        metric(descriptors, full_name(Group(regs[k].group).metrics[i]))
                            = Some(FullMetricDescriptor_new(regs[k].group, i))

\* A group was registered lazily and is not initialized, another as a collector
\* whose hook is not set; no call panicked and the index counts the four
\* metrics of the two.
C30_Witness ==
    /\ panicked = NoPanic
    /\ Cardinality(RegisteredUnbuilt) = 2
    /\ \E j, k \in 1..Len(regs) : regs[j].mode = "lazy" /\ regs[k].mode = "collector"
    /\ metric_count(registry.descriptors) = 4
    /\ Len(groups(registry.descriptors)) = 2

(***************************************************************************)
(* Specifications: each runs one part of the library and leaves the rest   *)
(* in its initial state.                                                   *)
(***************************************************************************)
vars == <<fvars, famvars, regvars, mfvars,
         infovars, gaugevars, srvvars, pushvars,
         httpvars, bucketvars, f64vars, scrapevars,
         trvars, snapvars, storevars>>

notFormat == <<famvars, regvars, mfvars, infovars,
               gaugevars, srvvars, pushvars, httpvars,
               bucketvars, f64vars, scrapevars, trvars,
               snapvars, storevars>>

notFamily == <<fvars, regvars, mfvars, infovars,
               gaugevars, srvvars, pushvars, httpvars,
               bucketvars, f64vars, scrapevars, trvars,
               snapvars, storevars>>

notRegistry == <<fvars, famvars, mfvars, infovars,
                 gaugevars, srvvars, pushvars, httpvars,
                 bucketvars, f64vars, scrapevars, trvars,
                 snapvars, storevars>>

notGroup == <<fvars, famvars, regvars, infovars,
              gaugevars, srvvars, pushvars, httpvars,
              bucketvars, f64vars, scrapevars, trvars,
              snapvars, storevars>>

notInfo == <<fvars, famvars, regvars, mfvars,
             gaugevars, srvvars, pushvars, httpvars,
             bucketvars, f64vars, scrapevars, trvars,
             snapvars, storevars>>

notGauge == <<fvars, famvars, regvars, mfvars,
              infovars, srvvars, pushvars, httpvars,
              bucketvars, f64vars, scrapevars, trvars,
              snapvars, storevars>>

notServer == <<fvars, famvars, regvars, mfvars,
               infovars, gaugevars, pushvars, httpvars,
               bucketvars, f64vars, scrapevars, trvars,
               snapvars, storevars>>

notPush == <<fvars, famvars, regvars, mfvars,
             infovars, gaugevars, srvvars, httpvars,
             bucketvars, f64vars, scrapevars, trvars,
             snapvars, storevars>>

notHttp == <<fvars, famvars, regvars, mfvars,
             infovars, gaugevars, srvvars, pushvars,
             bucketvars, f64vars, scrapevars, trvars,
             snapvars, storevars>>

notBuckets == <<fvars, famvars, regvars, mfvars,
                infovars, gaugevars, srvvars, pushvars,
                httpvars, f64vars, scrapevars, trvars,
                snapvars, storevars>>

notF64 == <<fvars, famvars, regvars, mfvars,
            infovars, gaugevars, srvvars, pushvars,
            httpvars, bucketvars, scrapevars, trvars,
            snapvars, storevars>>

notScrape == <<fvars, famvars, regvars, mfvars,
               infovars, gaugevars, srvvars, pushvars,
               httpvars, bucketvars, f64vars, trvars,
               snapvars, storevars>>

notTranslate == <<fvars, famvars, regvars, mfvars,
                  infovars, gaugevars, srvvars, pushvars,
                  httpvars, bucketvars, f64vars, scrapevars,
                  snapvars, storevars>>

notSnapshot == <<fvars, famvars, regvars, mfvars,
                 infovars, gaugevars, srvvars, pushvars,
                 httpvars, bucketvars, f64vars, scrapevars,
                 trvars, storevars>>

notStorage == <<fvars, famvars, regvars, mfvars,
                infovars, gaugevars, srvvars, pushvars,
                httpvars, bucketvars, f64vars, scrapevars,
                trvars, snapvars>>

RegistryIdle ==
    /\ registry = Registry_empty
    /\ globals = [g \in GroupNames |-> "uninit"]
    /\ hooks = {}
    /\ dropped = {}
    /\ produced = {}
    /\ panicked = NoPanic
    /\ out = NoOutput
    /\ regs = <<>>

FormatIdle ==
    /\ format = "OpenMetrics"
    /\ input = <<>>
    /\ rest = <<>>
    /\ wrapper = PrometheusWrapper_new
    /\ wstate = "flushed"
    /\ cuts = {}

PushIdle ==
    /\ interval = 20
    /\ now = 0
    /\ ppc = "idle"
    /\ wait_start = 0
    /\ shutdown_fired = FALSE
    /\ shutdown_requested = FALSE
    /\ last_error_log_timestamp = None
    /\ error_log = <<>>
    /\ pushes = <<>>

GaugeIdle ==
    /\ gauge = 0
    /\ gauge_base = 0
    /\ guards = <<>>
    /\ guards_made = 0

ServerIdle ==
    /\ srv = "stopped"
    /\ conn = [c \in Conns |-> "new"]
    /\ reply = [c \in Conns |-> "none"]
    /\ at_signal = {}

HttpIdle ==
    /\ http_endpoint = "http://gateway/job/a"
    /\ http_responses = [fmt \in Formats |-> <<>>]
    /\ http_requests = [fmt \in Formats |-> <<>>]

BucketsIdle ==
    /\ buckets = Buckets_new([kind |-> "Slice", values |-> <<0, 1, 2, 5>>])
    /\ bcalls = <<>>
    /\ yielded = <<>>
    /\ ended = FALSE
    /\ boundaries = NotCollected

F64Idle ==
    /\ lhs_bits = 0
    /\ rhs_bits = 0
    /\ compared = "NotCalled"

TranslateIdle ==
    /\ tr_format = "Prometheus"
    /\ tr_lines = <<>>
    /\ tr_result = NotTranslated

\* A stream is written to a PrometheusWrapper in chunks and flushed.
FormatNext ==
    \/ \E k \in ChunkSizes : WriteStr(k) /\ UNCHANGED notFormat
    \/ Flush /\ UNCHANGED notFormat

FormatStart ==
    /\ FormatInit
    /\ FamilyInit
    /\ RegistryIdle
    /\ GroupInit
    /\ InfoInit
    /\ GaugeIdle
    /\ ServerIdle
    /\ PushIdle
    /\ HttpIdle
    /\ BucketsIdle
    /\ F64Idle
    /\ ScrapeInit
    /\ TranslateIdle
    /\ SnapshotInit
    /\ StorageInit

SpecFormat == FormatStart /\ [][FormatNext]_vars

\* Two threads use one Family.
FamilyNext ==
    \/ \E t \in Threads, l \in Labels : IndexGet(t, l) /\ UNCHANGED notFamily
    \/ \E t \in Threads : IndexInsertWith(t) /\ UNCHANGED notFamily
    \/ \E t \in Threads, l \in Labels : FamilyGet(t, l) /\ UNCHANGED notFamily
    \/ \E t \in Threads, l \in Labels :
            FamilyContains(t, l) /\ UNCHANGED notFamily
    \/ \E t \in Threads, op \in {"to_entries", "encode"} :
            FamilyToEntries(t, op) /\ UNCHANGED notFamily
    \/ \E t \in Threads : \E r \in held[t] :
            Release(t, r) /\ UNCHANGED notFamily

FamilyStart ==
    /\ FamilyInit
    /\ FormatIdle
    /\ RegistryIdle
    /\ GroupInit
    /\ InfoInit
    /\ GaugeIdle
    /\ ServerIdle
    /\ PushIdle
    /\ HttpIdle
    /\ BucketsIdle
    /\ F64Idle
    /\ ScrapeInit
    /\ TranslateIdle
    /\ SnapshotInit
    /\ StorageInit

SpecFamily == FamilyStart /\ [][FamilyNext]_vars

\* A registry is filled and scraped.
RegistryNext ==
    \/ \E g \in GroupNames : RegisterMetrics(g) /\ UNCHANGED notRegistry
    \/ \E g \in GroupNames, force_lazy \in BOOLEAN :
            RegisterGlobalMetrics(g, force_lazy) /\ UNCHANGED notRegistry
    \/ \E g \in GroupNames : RegisterCollector(g) /\ UNCHANGED notRegistry
    \/ \E g \in GroupNames : Touch(g) /\ UNCHANGED notRegistry
    \/ \E g \in GroupNames : BeforeScrape(g) /\ UNCHANGED notRegistry
    \/ \E g \in GroupNames : DropState(g) /\ UNCHANGED notRegistry
    \/ \E fmt \in Formats : Encode(fmt) /\ UNCHANGED notRegistry

RegistryStart ==
    /\ RegistryInit
    /\ FormatIdle
    /\ FamilyInit
    /\ GroupInit
    /\ InfoInit
    /\ GaugeIdle
    /\ ServerIdle
    /\ PushIdle
    /\ HttpIdle
    /\ BucketsIdle
    /\ F64Idle
    /\ ScrapeInit
    /\ TranslateIdle
    /\ SnapshotInit
    /\ StorageInit

SpecRegistry == RegistryStart /\ [][RegistryNext]_vars

\* A MetricsFamily is filled and encoded.
GroupNext ==
    \/ \E m \in Methods : IndexMethod(m) /\ UNCHANGED notGroup
    \/ \E m \in Methods, c \in Codes :
            IndexReturnCode(m, c) /\ UNCHANGED notGroup
    \/ \E order \in NameOrders : EncodeGroups(order) /\ UNCHANGED notGroup

GroupStart ==
    /\ GroupInit
    /\ FormatIdle
    /\ FamilyInit
    /\ RegistryIdle
    /\ InfoInit
    /\ GaugeIdle
    /\ ServerIdle
    /\ PushIdle
    /\ HttpIdle
    /\ BucketsIdle
    /\ F64Idle
    /\ ScrapeInit
    /\ TranslateIdle
    /\ SnapshotInit
    /\ StorageInit

SpecGroup == GroupStart /\ [][GroupNext]_vars

\* An Info metric and its clones are set and read.
InfoNext ==
    \/ InfoClone /\ UNCHANGED notInfo
    \/ \E i \in Infos, value \in InfoValues :
            InfoSet(i, value) /\ UNCHANGED notInfo
    \/ \E i \in Infos : InfoGet(i) /\ UNCHANGED notInfo

InfoStart ==
    /\ InfoInit
    /\ FormatIdle
    /\ FamilyInit
    /\ RegistryIdle
    /\ GroupInit
    /\ GaugeIdle
    /\ ServerIdle
    /\ PushIdle
    /\ HttpIdle
    /\ BucketsIdle
    /\ F64Idle
    /\ ScrapeInit
    /\ TranslateIdle
    /\ SnapshotInit
    /\ StorageInit

SpecInfo == InfoStart /\ [][InfoNext]_vars

\* Guards of one gauge are created and dropped.
GaugeNext ==
    \/ \E v \in Increments : IncGuard(v) /\ UNCHANGED notGauge
    \/ \E i \in 1 .. MaxGuards : DropGuard(i) /\ UNCHANGED notGauge

GaugeStart ==
    /\ GaugeInit
    /\ FormatIdle
    /\ FamilyInit
    /\ RegistryIdle
    /\ GroupInit
    /\ InfoInit
    /\ ServerIdle
    /\ PushIdle
    /\ HttpIdle
    /\ BucketsIdle
    /\ F64Idle
    /\ ScrapeInit
    /\ TranslateIdle
    /\ SnapshotInit
    /\ StorageInit

SpecGauge == GaugeStart /\ [][GaugeNext]_vars

\* The exporter serves scrapes until shutdown.
ServerNext ==
    \/ \E c \in Conns : Accept(c) /\ UNCHANGED notServer
    \/ \E c \in Conns : ReceiveRequest(c) /\ UNCHANGED notServer
    \/ \E c \in Conns, encoded \in EncodeResults :
            Respond(c, encoded) /\ UNCHANGED notServer
    \/ \E c \in Conns : ClientCloses(c) /\ UNCHANGED notServer
    \/ ServerShutdown /\ UNCHANGED notServer
    \/ StartCompletes /\ UNCHANGED notServer

ServerStart ==
    /\ ServerInit
    /\ FormatIdle
    /\ FamilyInit
    /\ RegistryIdle
    /\ GroupInit
    /\ InfoInit
    /\ GaugeIdle
    /\ PushIdle
    /\ HttpIdle
    /\ BucketsIdle
    /\ F64Idle
    /\ ScrapeInit
    /\ TranslateIdle
    /\ SnapshotInit
    /\ StorageInit

SpecServer == ServerStart /\ [][ServerNext]_vars

\* The exporter pushes to a gateway until shutdown.
PushNext ==
    \/ Tick /\ UNCHANGED notPush
    \/ ShutdownSignal /\ UNCHANGED notPush
    \/ WaitTimeout /\ UNCHANGED notPush
    \/ WaitShutdown /\ UNCHANGED notPush
    \/ \E encoded \in EncodeResults : RenderBody(encoded) /\ UNCHANGED notPush
    \/ \E o \in RequestOutcomes : PushCompletes(o) /\ UNCHANGED notPush

PushStart ==
    /\ PushInit
    /\ FormatIdle
    /\ FamilyInit
    /\ RegistryIdle
    /\ GroupInit
    /\ InfoInit
    /\ GaugeIdle
    /\ ServerIdle
    /\ HttpIdle
    /\ BucketsIdle
    /\ F64Idle
    /\ ScrapeInit
    /\ TranslateIdle
    /\ SnapshotInit
    /\ StorageInit

SpecPush == PushStart /\ [][PushNext]_vars

\* Exporters of every format answer scrapes and push.
HttpNext ==
    \/ \E fmt \in Formats : Render(fmt) /\ UNCHANGED notHttp
    \/ \E fmt \in Formats : PushRequest(fmt) /\ UNCHANGED notHttp

HttpStart ==
    /\ HttpInit
    /\ FormatIdle
    /\ FamilyInit
    /\ RegistryIdle
    /\ GroupInit
    /\ InfoInit
    /\ GaugeIdle
    /\ ServerIdle
    /\ PushIdle
    /\ BucketsIdle
    /\ F64Idle
    /\ ScrapeInit
    /\ TranslateIdle
    /\ SnapshotInit
    /\ StorageInit

SpecHttp == HttpStart /\ [][HttpNext]_vars

\* Buckets are built, adjusted and iterated.
BucketsNext ==
    \/ Mirrored /\ UNCHANGED notBuckets
    \/ \E bias \in Biases : Biased(bias) /\ UNCHANGED notBuckets
    \/ Yield /\ UNCHANGED notBuckets
    \/ Collect /\ UNCHANGED notBuckets

BucketsStart ==
    /\ BucketsInit
    /\ FormatIdle
    /\ FamilyInit
    /\ RegistryIdle
    /\ GroupInit
    /\ InfoInit
    /\ GaugeIdle
    /\ ServerIdle
    /\ PushIdle
    /\ HttpIdle
    /\ F64Idle
    /\ ScrapeInit
    /\ TranslateIdle
    /\ SnapshotInit
    /\ StorageInit

SpecBuckets == BucketsStart /\ [][BucketsNext]_vars

\* Two f64 values are compared.
F64Next ==
    \/ CompareF64 /\ UNCHANGED notF64

F64Start ==
    /\ F64Init
    /\ FormatIdle
    /\ FamilyInit
    /\ RegistryIdle
    /\ GroupInit
    /\ InfoInit
    /\ GaugeIdle
    /\ ServerIdle
    /\ PushIdle
    /\ HttpIdle
    /\ BucketsIdle
    /\ ScrapeInit
    /\ TranslateIdle
    /\ SnapshotInit
    /\ StorageInit

SpecF64 == F64Start /\ [][F64Next]_vars

\* Scrapes are served concurrently.
ScrapeNext ==
    \/ \E c \in Scrapers : ScrapeAccept(c) /\ UNCHANGED notScrape
    \/ \E c \in Scrapers : StartEncode(c) /\ UNCHANGED notScrape
    \/ \E c \in Scrapers : CallbackBlocks(c) /\ UNCHANGED notScrape
    \/ \E c \in Scrapers : CallbackReturns(c) /\ UNCHANGED notScrape
    \/ \E c \in Scrapers, encoded \in EncodeResults :
            EncodeReturns(c, encoded) /\ UNCHANGED notScrape
    \/ \E c \in Scrapers : SendResponse(c) /\ UNCHANGED notScrape

ScrapeStart ==
    /\ ScrapeInit
    /\ FormatIdle
    /\ FamilyInit
    /\ RegistryIdle
    /\ GroupInit
    /\ InfoInit
    /\ GaugeIdle
    /\ ServerIdle
    /\ PushIdle
    /\ HttpIdle
    /\ BucketsIdle
    /\ F64Idle
    /\ TranslateIdle
    /\ SnapshotInit
    /\ StorageInit

SpecScrape == ScrapeStart /\ [][ScrapeNext]_vars

\* A whole document is translated.
TranslateNext ==
    \/ Translate /\ UNCHANGED notTranslate

TranslateStart ==
    /\ TranslateInit
    /\ FormatIdle
    /\ FamilyInit
    /\ RegistryIdle
    /\ GroupInit
    /\ InfoInit
    /\ GaugeIdle
    /\ ServerIdle
    /\ PushIdle
    /\ HttpIdle
    /\ BucketsIdle
    /\ F64Idle
    /\ ScrapeInit
    /\ SnapshotInit
    /\ StorageInit

SpecTranslate == TranslateStart /\ [][TranslateNext]_vars

\* A Family is encoded while it is indexed.
SnapshotNext ==
    \/ \E l \in SnapshotLabels : InsertDuring(l) /\ UNCHANGED notSnapshot
    \/ TakeKeys /\ UNCHANGED notSnapshot
    \/ LookupKey /\ UNCHANGED notSnapshot

SnapshotStart ==
    /\ SnapshotInit
    /\ FormatIdle
    /\ FamilyInit
    /\ RegistryIdle
    /\ GroupInit
    /\ InfoInit
    /\ GaugeIdle
    /\ ServerIdle
    /\ PushIdle
    /\ HttpIdle
    /\ BucketsIdle
    /\ F64Idle
    /\ ScrapeInit
    /\ TranslateIdle
    /\ StorageInit

SpecSnapshot == SnapshotStart /\ [][SnapshotNext]_vars

\* Lazy groups and families are encoded while they are used.
StorageNext ==
    \/ TouchGlobal /\ UNCHANGED notStorage
    \/ \E labels \in Labels :
            IndexMetricsFamily(labels) /\ UNCHANGED notStorage
    \/ \E labels \in Labels : IndexFamily(labels) /\ UNCHANGED notStorage
    \/ \E hook \in StorageHooks : SetHook(hook) /\ UNCHANGED notStorage
    \/ EncodeStorage /\ UNCHANGED notStorage

StorageStart ==
    /\ StorageInit
    /\ FormatIdle
    /\ FamilyInit
    /\ RegistryIdle
    /\ GroupInit
    /\ InfoInit
    /\ GaugeIdle
    /\ ServerIdle
    /\ PushIdle
    /\ HttpIdle
    /\ BucketsIdle
    /\ F64Idle
    /\ ScrapeInit
    /\ TranslateIdle
    /\ SnapshotInit

SpecStorage == StorageStart /\ [][StorageNext]_vars

=============================================================================
